---- MODULE Spec2Model ----
(***************************************************************************)
(* Model of the RouteSync backend: the Location, Bus, Route, Operator and   *)
(* User collections, the LocationService operations that write and query   *)
(* pings (src/src/services/locationService.js), the fleet directory         *)
(* (routeService.js, operatorService.js, BusService) and the token issuer  *)
(* (userService.js).                                                       *)
(*                                                                         *)
(* Coordinates are whole degrees, times are whole seconds (clock ticks),   *)
(* distances are whole metres.                                             *)
(***************************************************************************)
EXTENDS Integers, Sequences, FiniteSets, TLC

VARIABLES buses, locations, nextLocId, now, resp, routes, operators, users, calls

vars == <<buses, locations, nextLocId, now, resp, routes, operators, users, calls>>

----------------------------------------------------------------------------
(* Bounds of the model *)

\* number of Location documents ever created
MaxLocations == 2
\* last tick of the clock
MaxTime == 2
\* largest page size asked of getBusLocationHistory
MaxLimit == 2
\* largest page number asked of getBusLocationHistory
MaxPage == 2
\* size of the Bus collection
MaxBuses == 3

----------------------------------------------------------------------------
(* Values *)

None == "none"

\* ObjectIds a request can carry in :busId; "b3" is well formed and matches no Bus
BusIds == {"b1", "b2", "b3"}

User(role, operatorId, assignedBusId) ==
    [role |-> role, operatorId |-> operatorId, assignedBusId |-> assignedBusId]

\* the req.user documents a request can arrive with
Users ==
    { User("admin", None, None),
      User("operator", "o1", None),
      User("driver", "o1", "b1"),
      User("driver", "o1", None),
      User("user", None, "b1"),
      User("user", None, None) }

Admin == User("admin", None, None)

\* <<latitude, longitude>> pairs of a request body
CoordinateInputs ==
    { <<7, 80>>, <<90, 180>>, <<-90, -180>>,
      <<0, 80>>, <<7, 0>>,
      <<-91, 80>>, <<91, 80>>, <<7, -181>>, <<7, 181>> }

\* timestamp of a request body: absent (<<>>) or tick 1
TimestampInputs == {<<>>, <<1>>}

\* getBusLocationHistory: const { limit = 50, ... } = filters
DefaultLimit == 50

NoLocation == [id |-> 0, busId |-> None, coordinates |-> <<0, 0>>, timestamp |-> 0]

NoPagination == [totalLocations |-> 0, totalPages |-> 0, currentPage |-> 0, count |-> 0]

NoPoint == <<>>

----------------------------------------------------------------------------
(* Error messages thrown by the service *)

ErrRequired == "Latitude and longitude are required"
ErrLatitude == "Latitude must be between -90 and 90"
ErrLongitude == "Longitude must be between -180 and 180"
ErrDeniedUpdate == "Access denied. You can only update your assigned bus location."
ErrDeniedLocation == "Access denied. You can only access your assigned bus location."
ErrDeniedHistory == "Access denied. You can only access your assigned bus location history."
ErrDeniedStats == "Access denied. You can only access your assigned bus statistics."
ErrDeniedFleet == "Access denied. Bus not found in your operator fleet."
ErrLocationNotFound == "Location not found for this bus"
ErrObjectId == "Class constructor ObjectId cannot be invoked without 'new'"
ErrStore == "store error"
Ok == "ok"

----------------------------------------------------------------------------
(* Helpers *)

\* !x of a number: holds of 0
Falsy(x) == x = 0

\* !x of an optional number: holds of undefined and of 0
FalsyOpt(x) == x = <<>> \/ x[1] = 0

Abs(x) == IF x < 0 THEN -x ELSE x

Min(a, b) == IF a < b THEN a ELSE b

\* Math.ceil(a / b) for a >= 0, b > 0
Ceil(a, b) == IF a % b = 0 THEN a \div b ELSE (a \div b) + 1

\* what the caller sees of a call: the call (op, busId, req) and its outcome
Response(op, busId, req, status) ==
    [op |-> op, busId |-> busId, req |-> req, status |-> status,
     location |-> NoLocation, locations |-> <<>>, pagination |-> NoPagination,
     totalRecords |-> 0, nearbyBuses |-> <<>>, deletedCount |-> 0, tokens |-> <<>>,
     buses |-> <<>>]

NoResponse == Response("none", None, <<>>, Ok)

Idle == resp.op = "none"

----------------------------------------------------------------------------
(* Calls in flight: a call that awaits the store between its steps *)

\* the requests that can be in flight together
CallIds == {"c1", "c2"}

\* the refresh token of a call that holds none
NoToken == [id |-> None, type |-> "none", iat |-> 0, signed |-> FALSE]

\* what a call holds between its steps: the operation, the position in its
\* code (pc), its arguments, the document it created and, once it has
\* written the Bus, the place of that write among the Bus writes (order);
\* for a call that loaded a User document: the refreshTokens array of its
\* copy, and whether the stored document's version (__v) has moved past the
\* copy's (behind)
NoCall ==
    [op |-> "none", pc |-> "idle", status |-> Ok, busId |-> None,
     coordinates |-> <<0, 0>>, location |-> NoLocation, order |-> 0,
     routeId |-> None, busNumber |-> None,
     attempts |-> 0, isUnique |-> FALSE, newBusId |-> 0,
     userId |-> None, refreshToken |-> NoToken, newRefreshToken |-> NoToken,
     refreshTokens |-> <<>>, behind |-> FALSE]

NoCalls == [c \in CallIds |-> NoCall]

----------------------------------------------------------------------------
(* Initial state: two buses of two operators, no pings yet; the busId of a  *)
(* Bus is the number after its prefix "BUS"                                *)

\* the Route collection: r1 carries both buses, r2 none, r3 is inactive
SeedRoutes ==
    [r \in {"r1", "r2", "r3"} |-> [isActive |-> r # "r3"]]

\* the Operator collection: o1 owns a bus and a user, o2 a bus, o3 a user,
\* o4 nothing
SeedOperators ==
    [o \in {"o1", "o2", "o3", "o4"} |-> [isActive |-> TRUE]]

\* a User document; the stored password stands for its hash, role defaults
\* to "user"
UserDoc(password, operatorId, isActive, refreshTokens) ==
    [password |-> password, operatorId |-> operatorId, isActive |-> isActive,
     role |-> "user", lastLogin |-> 0, refreshTokens |-> refreshTokens]

\* the User collection
SeedUsers ==
    [u \in {"u1", "u2"} |->
        IF u = "u1" THEN UserDoc("secret1", "o1", TRUE, <<>>)
                    ELSE UserDoc("secret2", "o3", TRUE, <<>>)]

Init ==
    /\ buses = [b \in {"b1", "b2"} |->
                  [busId |-> IF b = "b1" THEN 101000 ELSE 101001,
                   busNumber |-> IF b = "b1" THEN "NB-1" ELSE "NB-2",
                   routeId |-> "r1",
                   operatorId |-> IF b = "b1" THEN "o1" ELSE "o2",
                   status |-> "active",
                   currentLocation |-> NoPoint,
                   lastUpdated |-> 0]]
    /\ locations = {}
    /\ nextLocId = 1
    /\ now = 1
    /\ resp = NoResponse
    /\ routes = SeedRoutes
    /\ operators = SeedOperators
    /\ users = SeedUsers
    /\ calls = NoCalls

----------------------------------------------------------------------------
(* The clock read by new Date() *)

Tick ==
    /\ Idle
    /\ now < MaxTime
    /\ now' = now + 1
    /\ UNCHANGED <<buses, locations, nextLocId, resp, routes, operators, users, calls>>

----------------------------------------------------------------------------
(* LocationService.updateBusLocation *)

\* UpdateCheck without the upper latitude bound
UpdateCheckNoUpperLatitude(busId, latitude, longitude, user) ==
    IF Falsy(latitude) \/ Falsy(longitude) THEN ErrRequired
    ELSE IF latitude < -90 THEN ErrLatitude
    ELSE IF longitude < -180 \/ longitude > 180 THEN ErrLongitude
    ELSE IF user.role = "driver"
            /\ (user.assignedBusId = None \/ user.assignedBusId # busId)
         THEN ErrDeniedUpdate
    ELSE Ok

\* the error thrown before any write, or Ok
UpdateCheck(busId, latitude, longitude, user) ==
    IF Falsy(latitude) \/ Falsy(longitude) THEN ErrRequired
    ELSE IF latitude < -90 \/ latitude > 90 THEN ErrLatitude
    ELSE IF longitude < -180 \/ longitude > 180 THEN ErrLongitude
    ELSE IF user.role = "driver"
            /\ (user.assignedBusId = None \/ user.assignedBusId # busId)
         THEN ErrDeniedUpdate
    ELSE Ok

\* the document Location.create inserts
NewLocation(busId, latitude, longitude, timestamp) ==
    [id |-> nextLocId,
     busId |-> busId,
     coordinates |-> <<longitude, latitude>>,
     timestamp |-> IF FalsyOpt(timestamp) THEN now ELSE timestamp[1]]

\* BusAfterUpdate writing only a Bus that has no currentLocation yet
BusAfterUpdateFirstWins(busId, latitude, longitude) ==
    IF busId \in DOMAIN buses /\ buses[busId].currentLocation = NoPoint
    THEN [buses EXCEPT ![busId].currentLocation = <<longitude, latitude>>,
                       ![busId].lastUpdated = now]
    ELSE buses

\* Bus.findByIdAndUpdate: no matching document is not an error
BusAfterUpdate(busId, latitude, longitude) ==
    IF busId \in DOMAIN buses
    THEN [buses EXCEPT ![busId].currentLocation = <<longitude, latitude>>,
                       ![busId].lastUpdated = now]
    ELSE buses

UpdateBusLocation(busId, latitude, longitude, timestamp, user) ==
    LET check == UpdateCheck(busId, latitude, longitude, user)
        location == NewLocation(busId, latitude, longitude, timestamp)
        req == [latitude |-> latitude, longitude |-> longitude,
                timestamp |-> timestamp, user |-> user]
        response(status) == Response("updateBusLocation", busId, req, status)
    IN  /\ Idle
        /\ nextLocId <= MaxLocations
        /\ IF check # Ok
           THEN /\ resp' = response(check)
                /\ UNCHANGED <<buses, locations, nextLocId>>
           ELSE /\ locations' = locations \cup {location}
                /\ nextLocId' = nextLocId + 1
                \* the second write either commits or is rejected by the store
                /\ \/ /\ buses' = BusAfterUpdate(busId, latitude, longitude)
                      /\ resp' = [response(Ok) EXCEPT !.location = location]
                   \/ /\ buses' = buses
                      /\ resp' = response(ErrStore)
        /\ UNCHANGED <<now, routes, operators, users, calls>>

----------------------------------------------------------------------------
(* LocationService.updateBusLocation as the two writes it awaits in turn *)

\* the number of Bus writes of calls committed so far
BusWrites == Cardinality({c \in CallIds : calls[c].order > 0})

\* the call is validated, then Location.create commits
UpdateCreateLocation(c, busId, latitude, longitude, timestamp, user) ==
    LET check == UpdateCheck(busId, latitude, longitude, user)
        location == NewLocation(busId, latitude, longitude, timestamp)
        call == [NoCall EXCEPT !.op = "updateBusLocation", !.busId = busId,
                               !.coordinates = <<longitude, latitude>>]
    IN  /\ calls[c].pc = "idle"
        /\ nextLocId <= MaxLocations
        /\ IF check # Ok
           THEN /\ calls' = [calls EXCEPT ![c] = [call EXCEPT !.pc = "done",
                                                              !.status = check]]
                /\ UNCHANGED <<locations, nextLocId>>
           ELSE /\ locations' = locations \cup {location}
                /\ nextLocId' = nextLocId + 1
                /\ calls' = [calls EXCEPT ![c] = [call EXCEPT !.pc = "created",
                                                              !.location = location]]
        /\ UNCHANGED <<buses, now, resp, routes, operators, users>>

\* Bus.findByIdAndUpdate commits or is rejected by the store, and the call returns
UpdateWriteBus(c) ==
    /\ calls[c].op = "updateBusLocation"
    /\ calls[c].pc = "created"
    /\ \/ /\ buses' = BusAfterUpdate(calls[c].busId, calls[c].coordinates[2],
                                     calls[c].coordinates[1])
          /\ calls' = [calls EXCEPT ![c].pc = "done", ![c].order = BusWrites + 1]
       \/ /\ buses' = buses
          /\ calls' = [calls EXCEPT ![c].pc = "done", ![c].status = ErrStore]
    /\ UNCHANGED <<locations, nextLocId, now, resp, routes, operators, users>>

----------------------------------------------------------------------------
(* Queries over the Location collection *)

\* Location.find({ busId })
BusLocations(busId) == {l \in locations : l.busId = busId}

\* SortByTimestampDesc sorting oldest first
SortByTimestampAsc(S) ==
    LET n == Cardinality(S)
    IN  {seq \in [1..n -> S] :
            /\ \A i, j \in 1..n : i # j => seq[i] # seq[j]
            /\ \A i, j \in 1..n : i < j => seq[i].timestamp <= seq[j].timestamp}

\* every order .sort({ timestamp: -1 }) can return S in: newest first, ties in any order
SortByTimestampDesc(S) ==
    LET n == Cardinality(S)
    IN  {seq \in [1..n -> S] :
            /\ \A i, j \in 1..n : i # j => seq[i] # seq[j]
            /\ \A i, j \in 1..n : i < j => seq[i].timestamp >= seq[j].timestamp}

\* SkipLimit without the skip
LimitOnly(seq, skip, limit) ==
    SubSeq(seq, 1, Min(limit, Len(seq)))

\* .skip(skip).limit(limit) of a sorted result
SkipLimit(seq, skip, limit) ==
    SubSeq(seq, skip + 1, Min(skip + limit, Len(seq)))

----------------------------------------------------------------------------
(* LocationService.getBusLocation *)

GetLocationCheck(busId, user) ==
    IF user.role = "driver"
       /\ (user.assignedBusId = None \/ user.assignedBusId # busId)
    THEN ErrDeniedLocation
    ELSE Ok

\* the documents Location.findOne({ busId }).sort({ timestamp: -1 }) can return
LatestLocations(busId) ==
    {l \in BusLocations(busId) :
        \A m \in BusLocations(busId) : m.timestamp <= l.timestamp}

GetBusLocation(busId, user) ==
    LET check == GetLocationCheck(busId, user)
        response(status) == Response("getBusLocation", busId, [user |-> user], status)
    IN  /\ Idle
        /\ IF check # Ok
           THEN resp' = response(check)
           ELSE IF LatestLocations(busId) = {}
           THEN resp' = response(ErrLocationNotFound)
           ELSE \E location \in LatestLocations(busId) :
                   resp' = [response(Ok) EXCEPT !.location = location]
        /\ UNCHANGED <<buses, locations, nextLocId, now, routes, operators, users, calls>>

----------------------------------------------------------------------------
(* LocationService.getBusLocationHistory *)

\* Bus.findOne({ _id: busId, operatorId: user.operatorId }) finds a bus
InFleet(busId, user) ==
    busId \in DOMAIN buses /\ buses[busId].operatorId = user.operatorId

\* HistoryCheck without the driver rule
HistoryCheckNoDriver(busId, user) ==
    IF user.role = "operator" /\ ~InFleet(busId, user)
    THEN ErrDeniedFleet
    ELSE Ok

HistoryCheck(busId, user) ==
    IF user.role = "driver"
       /\ (user.assignedBusId = None \/ user.assignedBusId # busId)
    THEN ErrDeniedHistory
    ELSE IF user.role = "operator" /\ ~InFleet(busId, user)
    THEN ErrDeniedFleet
    ELSE Ok

\* Location.find(filter): startDate and endDate are optional, both inclusive
HistoryFilter(busId, startDate, endDate) ==
    {l \in BusLocations(busId) :
        /\ startDate = <<>> \/ l.timestamp >= startDate[1]
        /\ endDate = <<>> \/ l.timestamp <= endDate[1]}

GetBusLocationHistory(busId, limit, page, startDate, endDate, user) ==
    LET check == HistoryCheck(busId, user)
        req == [limit |-> limit, page |-> page, startDate |-> startDate,
                endDate |-> endDate, user |-> user]
        response(status) == Response("getBusLocationHistory", busId, req, status)
        matching == HistoryFilter(busId, startDate, endDate)
        totalLocations == Cardinality(matching)
    IN  /\ Idle
        /\ IF check # Ok
           THEN resp' = response(check)
           ELSE \E sorted \in SortByTimestampDesc(matching) :
                   LET found == SkipLimit(sorted, (page - 1) * limit, limit)
                   IN  resp' = [response(Ok) EXCEPT
                                  !.locations = found,
                                  !.pagination =
                                      [totalLocations |-> totalLocations,
                                       totalPages |-> Ceil(totalLocations, limit),
                                       currentPage |-> page,
                                       count |-> Len(found)]]
        /\ UNCHANGED <<buses, locations, nextLocId, now, routes, operators, users, calls>>

----------------------------------------------------------------------------
(* LocationService.getBusLocationStats *)

StatsCheck(busId, user) ==
    IF user.role = "driver"
       /\ (user.assignedBusId = None \/ user.assignedBusId # busId)
    THEN ErrDeniedStats
    ELSE IF user.role = "operator" /\ ~InFleet(busId, user)
    THEN ErrDeniedFleet
    ELSE Ok

GetBusLocationStats(busId, user) ==
    LET check == StatsCheck(busId, user)
        response(status) == Response("getBusLocationStats", busId, [user |-> user], status)
    IN  /\ Idle
        /\ IF check # Ok
           THEN resp' = response(check)
           \* Types.ObjectId(busId) is called without new: it casts the id under an
           \* ODM that exports a function, and throws under one that exports a class
           ELSE \/ resp' = [response(Ok) EXCEPT
                              !.totalRecords = Cardinality(BusLocations(busId))]
                \/ resp' = response(ErrObjectId)
        /\ UNCHANGED <<buses, locations, nextLocId, now, routes, operators, users, calls>>

----------------------------------------------------------------------------
(* LocationService.getBusesNearLocation *)

\* distanceField of $geoNear, in metres, between the centre <<latitude, longitude>>
\* and stored coordinates <<longitude, latitude>>: a degree is 111 km on the grid
Distance(latitude, longitude, coordinates) ==
    (Abs(coordinates[2] - latitude) + Abs(coordinates[1] - longitude)) * 111000

\* { $round: [{ $divide: ["$distance", 1000] }, 2] } in hundredths of a km:
\* $round rounds a half to the even neighbour
RoundedKm(metres) ==
    LET q == metres \div 10
        r == metres % 10
    IN  IF r < 5 THEN q
        ELSE IF r > 5 THEN q + 1
        ELSE IF q % 2 = 0 THEN q ELSE q + 1

NearbyCheck(latitude, longitude) ==
    IF latitude < -90 \/ latitude > 90 THEN ErrLatitude
    ELSE IF longitude < -180 \/ longitude > 180 THEN ErrLongitude
    ELSE Ok

\* GeoNear without maxDistance
GeoNearUnbounded(latitude, longitude, radiusInMeters) ==
    locations

\* $geoNear with maxDistance
GeoNear(latitude, longitude, radiusInMeters) ==
    {l \in locations : Distance(latitude, longitude, l.coordinates) <= radiusInMeters}

\* $sort { busId: 1, timestamp: -1 } then $group { _id: "$busId", $first }: the ways
\* to keep, for each bus of S, one document of S with its greatest timestamp
GroupLatest(S) ==
    LET ids == {l.busId : l \in S}
        firsts(b) == {l \in S : l.busId = b /\ \A m \in S :
                                   m.busId = b => m.timestamp <= l.timestamp}
    IN  {{pick[b] : b \in ids} : pick \in {f \in [ids -> S] : \A b \in ids : f[b] \in firsts(b)}}

\* $lookup buses, $unwind "$bus", $match { "bus.status": "active" }
JoinActiveBus(S) ==
    {l \in S : l.busId \in DOMAIN buses /\ buses[l.busId].status = "active"}

\* $project
NearbyRow(latitude, longitude, l) ==
    [busId |-> l.busId, coordinates |-> l.coordinates, timestamp |-> l.timestamp,
     distance |-> RoundedKm(Distance(latitude, longitude, l.coordinates))]

\* every order $sort { distance: 1 } can return the rows R in
SortByDistance(R) ==
    LET n == Cardinality(R)
    IN  {seq \in [1..n -> R] :
            /\ \A i, j \in 1..n : i # j => seq[i] # seq[j]
            /\ \A i, j \in 1..n : i < j => seq[i].distance <= seq[j].distance}

GetBusesNearLocation(latitude, longitude, radiusInKm) ==
    LET check == NearbyCheck(latitude, longitude)
        req == [latitude |-> latitude, longitude |-> longitude, radiusInKm |-> radiusInKm]
        response(status) == Response("getBusesNearLocation", None, req, status)
        radiusInMeters == radiusInKm * 1000
    IN  /\ Idle
        /\ IF check # Ok
           THEN resp' = response(check)
           ELSE \E grouped \in GroupLatest(GeoNear(latitude, longitude, radiusInMeters)) :
                   LET rows == {NearbyRow(latitude, longitude, l) : l \in JoinActiveBus(grouped)}
                   IN  \E sorted \in SortByDistance(rows) :
                          resp' = [response(Ok) EXCEPT !.nearbyBuses = sorted]
        /\ UNCHANGED <<buses, locations, nextLocId, now, routes, operators, users, calls>>

----------------------------------------------------------------------------
(* LocationService.cleanupOldLocations *)

\* 24 * 60 * 60 seconds
Day == 86400

\* cleanupOldLocations(daysToKeep = 90)
DefaultDaysToKeep == 90

\* OlderThan keeping nothing at the cutoff itself
NotNewerThan(cutoffDate) ==
    {l \in locations : l.timestamp <= cutoffDate}

\* the documents matching { timestamp: { $lt: cutoffDate } }
OlderThan(cutoffDate) ==
    {l \in locations : l.timestamp < cutoffDate}

CleanupOldLocations(daysToKeep) ==
    LET cutoffDate == now - daysToKeep * Day
        deleted == OlderThan(cutoffDate)
        response == Response("cleanupOldLocations", None, [daysToKeep |-> daysToKeep], Ok)
    IN  /\ Idle
        /\ locations' = locations \ deleted
        /\ resp' = [response EXCEPT !.deletedCount = Cardinality(deleted)]
        /\ UNCHANGED <<buses, nextLocId, now, routes, operators, users, calls>>

----------------------------------------------------------------------------

(* Error messages thrown by the fleet directory *)

ErrRouteNotFound == "Route not found"
ErrRouteHasBuses ==
    "Cannot delete route. There are buses currently assigned to this route."
ErrBusExists == "Bus with this number already exists"
ErrDuplicateKey == "E11000 duplicate key error"
ErrUnauthorizedCreate == "Unauthorized access: Only admins can create buses"
ErrInvalidRoute == "Invalid route: Route not found or inactive"
ErrOperatorNotFound == "Operator not found"
ErrOperatorHasBuses ==
    "Cannot delete operator. There are buses assigned to this operator."
ErrOperatorHasUsers ==
    "Cannot delete operator. There are users assigned to this operator."
ErrDeniedOperator ==
    "Access denied. You can only update your own operator information."

\* a collection without the document of one id
Without(collection, id) ==
    [d \in DOMAIN collection \ {id} |-> collection[d]]

\* a collection with one more document
With(collection, id, doc) ==
    [d \in DOMAIN collection \cup {id} |-> IF d = id THEN doc ELSE collection[d]]

----------------------------------------------------------------------------
(* RouteService.deleteRoute *)

\* BusesOnRoute counting only the active buses
ActiveBusesOnRoute(routeId) ==
    Cardinality({b \in DOMAIN buses :
                    buses[b].routeId = routeId /\ buses[b].status = "active"})

\* Bus.countDocuments({ routeId })
BusesOnRoute(routeId) ==
    Cardinality({b \in DOMAIN buses : buses[b].routeId = routeId})

DeleteRoute(routeId) ==
    LET response(status) == Response("deleteRoute", None, [routeId |-> routeId], status)
    IN  /\ Idle
        /\ IF routeId \notin DOMAIN routes
           THEN resp' = response(ErrRouteNotFound) /\ routes' = routes
           ELSE IF BusesOnRoute(routeId) > 0
           THEN resp' = response(ErrRouteHasBuses) /\ routes' = routes
           ELSE resp' = response(Ok) /\ routes' = Without(routes, routeId)
        /\ UNCHANGED <<buses, locations, nextLocId, now, operators, users, calls>>

----------------------------------------------------------------------------

(* BusService.createBus *)

\* ObjectIds the store gives to new Bus documents
NewBusIds == {"b4", "b5", "b6"}

\* the _id of the next Bus document
NewBusId == CHOOSE id \in NewBusIds : id \notin DOMAIN buses

\* Bus.findOne({ busNumber }) finds a bus
BusNumberExists(busNumber) ==
    \E b \in DOMAIN buses : buses[b].busNumber = busNumber

\* Bus.findOne({ busId }) finds a bus
BusIdExists(busId) ==
    \E b \in DOMAIN buses : buses[b].busId = busId

\* a busId the pre-save hook draws and finds unused at its first attempt
FreshBusId == CHOOSE n \in 500000..500009 : ~BusIdExists(n)

\* the document Bus.create inserts: status defaults to active, lastUpdated to now
NewBus(busNumber, routeId, operatorId) ==
    [busId |-> FreshBusId, busNumber |-> busNumber, routeId |-> routeId,
     operatorId |-> operatorId, status |-> "active", currentLocation |-> NoPoint,
     lastUpdated |-> now]

\* the error thrown before Bus.create, or Ok
CreateCheck(busNumber, routeId, user) ==
    IF user.role # "admin" THEN ErrUnauthorizedCreate
    ELSE IF BusNumberExists(busNumber) THEN ErrBusExists
    ELSE IF routeId \notin DOMAIN routes \/ ~routes[routeId].isActive THEN ErrInvalidRoute
    ELSE Ok

\* createBus(busData, user) of the admin variant
CreateBus(busNumber, routeId, user) ==
    LET check == CreateCheck(busNumber, routeId, user)
        req == [busNumber |-> busNumber, routeId |-> routeId, operatorId |-> None,
                user |-> user]
    IN  /\ Idle
        /\ Cardinality(DOMAIN buses) < MaxBuses
        /\ IF check # Ok
           THEN /\ resp' = Response("createBus", None, req, check)
                /\ buses' = buses
           ELSE /\ resp' = Response("createBus", NewBusId, req, Ok)
                /\ buses' = With(buses, NewBusId, NewBus(busNumber, routeId, None))
        /\ UNCHANGED <<locations, nextLocId, now, routes, operators, users, calls>>

\* createBus(busData) of the operator variant: the route is not looked up
CreateBusOperatorVariant(busNumber, routeId, operatorId) ==
    LET req == [busNumber |-> busNumber, routeId |-> routeId, operatorId |-> operatorId,
                user |-> Admin]
    IN  /\ Idle
        /\ Cardinality(DOMAIN buses) < MaxBuses
        /\ IF BusNumberExists(busNumber)
           THEN /\ resp' = Response("createBus", None, req, ErrBusExists)
                /\ buses' = buses
           ELSE /\ resp' = Response("createBus", NewBusId, req, Ok)
                /\ buses' = With(buses, NewBusId, NewBus(busNumber, routeId, operatorId))
        /\ UNCHANGED <<locations, nextLocId, now, routes, operators, users, calls>>

----------------------------------------------------------------------------

(* busSchema.pre("save"): the busId of a new Bus *)

\* const maxAttempts = 100
MaxAttempts == 100

\* the clock of the first tick, in seconds: Date.now() is 101000 ms there
EpochSeconds == 100

\* Date.now() at millisecond ms of the current second
DateNow(ms) == (EpochSeconds + now) * 1000 + ms

\* Date.now().toString().slice(-6), as the number its six digits spell
TimestampSuffix(ms) == DateNow(ms) % 1000000

\* a string of "BUS" and six digits, as the number the digits spell
WellFormed(busId) == busId \in 0..999999

\* the hook is entered for a new document without busId
HookEnter(c, busNumber) ==
    /\ calls[c].pc = "idle"
    /\ calls' = [calls EXCEPT ![c] = [NoCall EXCEPT !.op = "save", !.pc = "loop",
                                                    !.busNumber = busNumber]]
    /\ UNCHANGED <<buses, locations, nextLocId, now, resp, routes, operators, users>>

\* one pass of the while loop: a draw, then findOne({ busId }) answers or throws
HookAttempt(c, randomNum, ms) ==
    /\ calls[c].op = "save"
    /\ calls[c].pc = "loop"
    /\ ~calls[c].isUnique
    /\ calls[c].attempts < MaxAttempts
    /\ \/ calls' = [calls EXCEPT ![c].newBusId = randomNum,
                                 ![c].isUnique = ~BusIdExists(randomNum),
                                 ![c].attempts = @ + 1]
       \* catch (error): the timestamp-based id, without a look-up
       \/ calls' = [calls EXCEPT ![c].newBusId = TimestampSuffix(ms),
                                 ![c].pc = "named"]
    /\ UNCHANGED <<buses, locations, nextLocId, now, resp, routes, operators, users>>

\* the loop is left: the unique draw, or the timestamp-based id without a look-up
HookLeave(c, ms) ==
    /\ calls[c].op = "save"
    /\ calls[c].pc = "loop"
    /\ calls[c].isUnique \/ calls[c].attempts >= MaxAttempts
    /\ calls' = [calls EXCEPT
                   ![c].newBusId = IF calls[c].isUnique THEN @ ELSE TimestampSuffix(ms),
                   ![c].pc = "named"]
    /\ UNCHANGED <<buses, locations, nextLocId, now, resp, routes, operators, users>>

\* next(): the insert commits, unless the unique index on busId rejects it
HookSave(c) ==
    /\ calls[c].op = "save"
    /\ calls[c].pc = "named"
    /\ Cardinality(DOMAIN buses) < MaxBuses
    /\ IF BusIdExists(calls[c].newBusId)
       THEN /\ calls' = [calls EXCEPT ![c].pc = "done", ![c].status = ErrDuplicateKey]
            /\ buses' = buses
       ELSE /\ calls' = [calls EXCEPT ![c].pc = "done", ![c].busId = NewBusId]
            /\ buses' = With(buses, NewBusId,
                             [NewBus(calls[c].busNumber, "r1", None) EXCEPT
                                !.busId = calls[c].newBusId])
    /\ UNCHANGED <<locations, nextLocId, now, resp, routes, operators, users>>

----------------------------------------------------------------------------

(* BusService.createBus and RouteService.deleteRoute as the reads and the   *)
(* write each awaits in turn                                                *)

\* Bus.findOne({ busNumber }) and Route.findById(routeId) answer
CreateBusRead(c, busNumber, routeId, user) ==
    LET check == CreateCheck(busNumber, routeId, user)
        call == [NoCall EXCEPT !.op = "createBus", !.busNumber = busNumber,
                               !.routeId = routeId]
    IN  /\ calls[c].pc = "idle"
        /\ calls' = [calls EXCEPT ![c] =
                        IF check # Ok
                        THEN [call EXCEPT !.pc = "done", !.status = check]
                        ELSE [call EXCEPT !.pc = "checked"]]
        /\ UNCHANGED <<buses, locations, nextLocId, now, resp, routes, operators, users>>

\* Bus.create commits, unless the unique index on busNumber rejects it
CreateBusInsert(c) ==
    /\ calls[c].op = "createBus"
    /\ calls[c].pc = "checked"
    /\ Cardinality(DOMAIN buses) < MaxBuses
    /\ IF BusNumberExists(calls[c].busNumber)
       THEN /\ calls' = [calls EXCEPT ![c].pc = "done", ![c].status = ErrDuplicateKey]
            /\ buses' = buses
       ELSE /\ calls' = [calls EXCEPT ![c].pc = "done", ![c].busId = NewBusId]
            /\ buses' = With(buses, NewBusId,
                             NewBus(calls[c].busNumber, calls[c].routeId, None))
    /\ UNCHANGED <<locations, nextLocId, now, resp, routes, operators, users>>

\* Route.findById(routeId) and Bus.countDocuments({ routeId }) answer
DeleteRouteRead(c, routeId) ==
    LET call == [NoCall EXCEPT !.op = "deleteRoute", !.routeId = routeId]
        check == IF routeId \notin DOMAIN routes THEN ErrRouteNotFound
                 ELSE IF BusesOnRoute(routeId) > 0 THEN ErrRouteHasBuses
                 ELSE Ok
    IN  /\ calls[c].pc = "idle"
        /\ calls' = [calls EXCEPT ![c] =
                        IF check # Ok
                        THEN [call EXCEPT !.pc = "done", !.status = check]
                        ELSE [call EXCEPT !.pc = "checked"]]
        /\ UNCHANGED <<buses, locations, nextLocId, now, resp, routes, operators, users>>

\* Route.findByIdAndDelete commits: deleting a route already gone is no error
DeleteRouteWrite(c) ==
    /\ calls[c].op = "deleteRoute"
    /\ calls[c].pc = "checked"
    /\ calls' = [calls EXCEPT ![c].pc = "done"]
    /\ routes' = IF calls[c].routeId \in DOMAIN routes
                 THEN Without(routes, calls[c].routeId) ELSE routes
    /\ UNCHANGED <<buses, locations, nextLocId, now, resp, operators, users>>

----------------------------------------------------------------------------
(* BusService.updateBus *)

ErrOnlyAdmins == "Only admins can update bus information"
ErrBusNotFound == "Bus not found or access denied"

\* Bus.findOne({ busNumber, _id: { $ne: busId } }) finds a bus
BusNumberOnOther(busNumber, busId) ==
    \E b \in DOMAIN buses \ {busId} : buses[b].busNumber = busNumber

\* the error thrown by updateBus, or Ok; busNumber is optional
UpdateBusCheck(busId, busNumber, user) ==
    IF user.role # "admin" THEN ErrOnlyAdmins
    ELSE IF busNumber # <<>> /\ BusNumberOnOther(busNumber[1], busId) THEN ErrBusExists
    ELSE IF busId \notin DOMAIN buses THEN ErrBusNotFound
    ELSE Ok

\* busNumber, routeId and status are optional: only provided fields are written
UpdateBus(busId, busNumber, routeId, status, user) ==
    LET check == UpdateBusCheck(busId, busNumber, user)
        req == [busNumber |-> busNumber, routeId |-> routeId, status |-> status,
                user |-> user]
    IN  /\ Idle
        /\ resp' = Response("updateBus", busId, req, check)
        /\ buses' = IF check # Ok THEN buses
                    ELSE [buses EXCEPT
                            ![busId].busNumber = IF busNumber = <<>> THEN @ ELSE busNumber[1],
                            ![busId].routeId = IF routeId = <<>> THEN @ ELSE routeId[1],
                            ![busId].status = IF status = <<>> THEN @ ELSE status[1]]
        /\ UNCHANGED <<locations, nextLocId, now, routes, operators, users, calls>>

----------------------------------------------------------------------------
(* BusService.deleteBus *)

ErrOnlyAdminsDelete == "Only admins can delete buses"

\* LocationsOfBus matching every Location
LocationsOfAnyBus(busId) == locations

\* the documents matching Location.deleteMany({ busId })
LocationsOfBus(busId) == {l \in locations : l.busId = busId}

\* the error thrown before any write, or Ok
DeleteBusCheck(busId, user) ==
    IF user.role # "admin" THEN ErrOnlyAdminsDelete
    ELSE IF busId \notin DOMAIN buses THEN ErrBusNotFound
    ELSE Ok

\* two writes in turn, each of which the store can reject
DeleteBus(busId, user) ==
    LET check == DeleteBusCheck(busId, user)
        response(status) == Response("deleteBus", busId, [user |-> user], status)
    IN  /\ Idle
        /\ IF check # Ok
           THEN /\ resp' = response(check)
                /\ UNCHANGED <<buses, locations>>
           ELSE \/ /\ locations' = locations \ LocationsOfBus(busId)
                   /\ buses' = Without(buses, busId)
                   /\ resp' = response(Ok)
                \/ /\ locations' = locations \ LocationsOfBus(busId)
                   /\ buses' = buses
                   /\ resp' = response(ErrStore)
                \/ /\ UNCHANGED <<buses, locations>>
                   /\ resp' = response(ErrStore)
        /\ UNCHANGED <<nextLocId, now, routes, operators, users, calls>>

----------------------------------------------------------------------------
(* BusService.deleteBus as the read and the two writes it awaits in turn *)

\* Bus.findById(busId) answers
DeleteBusRead(c, busId, user) ==
    LET check == DeleteBusCheck(busId, user)
        call == [NoCall EXCEPT !.op = "deleteBus", !.busId = busId]
    IN  /\ calls[c].pc = "idle"
        /\ calls' = [calls EXCEPT ![c] =
                        IF check # Ok
                        THEN [call EXCEPT !.pc = "done", !.status = check]
                        ELSE [call EXCEPT !.pc = "found"]]
        /\ UNCHANGED <<buses, locations, nextLocId, now, resp, routes, operators, users>>

\* Location.deleteMany({ busId }) commits
DeleteBusLocations(c) ==
    /\ calls[c].op = "deleteBus"
    /\ calls[c].pc = "found"
    /\ locations' = locations \ LocationsOfBus(calls[c].busId)
    /\ calls' = [calls EXCEPT ![c].pc = "cleared"]
    /\ UNCHANGED <<buses, nextLocId, now, resp, routes, operators, users>>

\* Bus.findByIdAndDelete(busId) commits, and the call returns
DeleteBusWrite(c) ==
    /\ calls[c].op = "deleteBus"
    /\ calls[c].pc = "cleared"
    /\ buses' = IF calls[c].busId \in DOMAIN buses
                THEN Without(buses, calls[c].busId) ELSE buses
    /\ calls' = [calls EXCEPT ![c].pc = "done"]
    /\ UNCHANGED <<locations, nextLocId, now, resp, routes, operators, users>>

----------------------------------------------------------------------------

(* BusService.getAllBuses *)

\* getAllBuses: const { page = 1, limit = 20, ... } = filters
DefaultBusLimit == 20

\* Bus.find(filter): the ids of the buses matching every key the filter has;
\* status, routeId, operatorId and id are optional (<<>> or <<value>>)
FindBuses(status, routeId, operatorId, id) ==
    {b \in DOMAIN buses :
        /\ status = <<>> \/ buses[b].status = status[1]
        /\ routeId = <<>> \/ buses[b].routeId = routeId[1]
        /\ operatorId = <<>> \/ buses[b].operatorId = operatorId[1]
        /\ id = <<>> \/ b = id[1]}

\* every order .sort({ lastUpdated: -1 }) can return the buses B in
SortByLastUpdated(B) ==
    LET n == Cardinality(B)
    IN  {seq \in [1..n -> B] :
            /\ \A i, j \in 1..n : i # j => seq[i] # seq[j]
            /\ \A i, j \in 1..n :
                  i < j => buses[seq[i]].lastUpdated >= buses[seq[j]].lastUpdated}

\* !x of an id: holds of an absent one
Assigned(user) == user.assignedBusId # None

\* getAllBuses(filters, user) of the operator variant
GetAllBuses(status, routeId, limit, page, user) ==
    LET req == [status |-> status, routeId |-> routeId, limit |-> limit,
                page |-> page, user |-> user]
        operatorId == IF user.role = "operator" THEN <<user.operatorId>> ELSE <<>>
        id == IF user.role = "driver" /\ Assigned(user)
              THEN <<user.assignedBusId>> ELSE <<>>
    IN  /\ Idle
        /\ \E sorted \in SortByLastUpdated(FindBuses(status, routeId, operatorId, id)) :
              resp' = [Response("getAllBuses", None, req, Ok) EXCEPT
                         !.buses = SkipLimit(sorted, (page - 1) * limit, limit)]
        /\ UNCHANGED <<buses, locations, nextLocId, now, routes, operators, users, calls>>

\* getAllBuses(filters, user) of the admin variant: only user.assignedBusId
\* narrows the filter
GetAllBusesAdminVariant(status, routeId, limit, page, user) ==
    LET req == [status |-> status, routeId |-> routeId, limit |-> limit,
                page |-> page, user |-> user]
        id == IF Assigned(user) THEN <<user.assignedBusId>> ELSE <<>>
    IN  /\ Idle
        /\ \E sorted \in SortByLastUpdated(FindBuses(status, routeId, <<>>, id)) :
              resp' = [Response("getAllBuses", None, req, Ok) EXCEPT
                         !.buses = SkipLimit(sorted, (page - 1) * limit, limit)]
        /\ UNCHANGED <<buses, locations, nextLocId, now, routes, operators, users, calls>>

----------------------------------------------------------------------------

(* OperatorService.deleteOperator *)

\* Bus.countDocuments({ operatorId })
BusCount(operatorId) ==
    Cardinality({b \in DOMAIN buses : buses[b].operatorId = operatorId})

\* User.countDocuments({ operatorId })
UserCount(operatorId) ==
    Cardinality({u \in DOMAIN users : users[u].operatorId = operatorId})

\* DeleteOperatorCheck without the user count
DeleteOperatorCheckNoUsers(operatorId) ==
    IF operatorId \notin DOMAIN operators THEN ErrOperatorNotFound
    ELSE IF BusCount(operatorId) > 0 THEN ErrOperatorHasBuses
    ELSE Ok

\* the error thrown before Operator.findByIdAndDelete, or Ok
DeleteOperatorCheck(operatorId) ==
    IF operatorId \notin DOMAIN operators THEN ErrOperatorNotFound
    ELSE IF BusCount(operatorId) > 0 THEN ErrOperatorHasBuses
    ELSE IF UserCount(operatorId) > 0 THEN ErrOperatorHasUsers
    ELSE Ok

DeleteOperator(operatorId) ==
    LET check == DeleteOperatorCheck(operatorId)
        response(status) ==
            Response("deleteOperator", None, [operatorId |-> operatorId], status)
    IN  /\ Idle
        /\ resp' = response(check)
        /\ operators' = IF check = Ok THEN Without(operators, operatorId) ELSE operators
        /\ UNCHANGED <<buses, locations, nextLocId, now, routes, users, calls>>

----------------------------------------------------------------------------
(* OperatorService.toggleOperatorStatus *)

\* Bus.updateMany({ operatorId }, { status: "inactive" })
BusesDeactivated(operatorId) ==
    [b \in DOMAIN buses |->
        IF buses[b].operatorId = operatorId
        THEN [buses[b] EXCEPT !.status = "inactive"]
        ELSE buses[b]]

\* User.updateMany({ operatorId }, { isActive: false })
UsersDeactivated(operatorId) ==
    [u \in DOMAIN users |->
        IF users[u].operatorId = operatorId
        THEN [users[u] EXCEPT !.isActive = FALSE]
        ELSE users[u]]

ToggleOperatorStatus(operatorId) ==
    LET response(status) ==
            Response("toggleOperatorStatus", None, [operatorId |-> operatorId], status)
    IN  /\ Idle
        /\ IF operatorId \notin DOMAIN operators
           THEN /\ resp' = response(ErrOperatorNotFound)
                /\ UNCHANGED <<operators, buses, users>>
           ELSE /\ operators' = [operators EXCEPT ![operatorId].isActive = ~@]
                /\ IF operators[operatorId].isActive
                   \* deactivating: two more writes, each of which the store can reject
                   THEN \/ /\ buses' = BusesDeactivated(operatorId)
                           /\ users' = UsersDeactivated(operatorId)
                           /\ resp' = response(Ok)
                        \/ /\ buses' = BusesDeactivated(operatorId)
                           /\ users' = users
                           /\ resp' = response(ErrStore)
                        \/ /\ UNCHANGED <<buses, users>>
                           /\ resp' = response(ErrStore)
                   ELSE /\ UNCHANGED <<buses, users>>
                        /\ resp' = response(Ok)
        /\ UNCHANGED <<locations, nextLocId, now, routes, calls>>

----------------------------------------------------------------------------
(* OperatorService.updateOperator *)

UpdateOperatorCheck(operatorId, user) ==
    IF user.role = "operator" /\ user.operatorId # operatorId THEN ErrDeniedOperator
    ELSE IF operatorId \notin DOMAIN operators THEN ErrOperatorNotFound
    ELSE Ok

\* updateData.isActive is optional: an absent value leaves the field as it is
UpdateOperator(operatorId, isActive, user) ==
    LET check == UpdateOperatorCheck(operatorId, user)
        req == [operatorId |-> operatorId, isActive |-> isActive, user |-> user]
    IN  /\ Idle
        /\ resp' = Response("updateOperator", None, req, check)
        /\ operators' = IF check = Ok /\ isActive # <<>>
                         THEN [operators EXCEPT ![operatorId].isActive = isActive[1]]
                         ELSE operators
        /\ UNCHANGED <<buses, locations, nextLocId, now, routes, users, calls>>

----------------------------------------------------------------------------

(* Tokens: userSchema.methods of the User model *)

\* expiresIn "7d" of a refresh token and "15m" of an access token, in seconds
RefreshExpire == 604800

AccessExpire == 900

\* addRefreshToken keeps the last 5 refresh tokens
MaxRefreshTokens == 5

\* jwt.sign: the token is determined by its payload, the second it was signed in
\* (iat) and the key; signed tells the server's key from any other
Token(id, type, iat, signed) ==
    [id |-> id, type |-> type, iat |-> iat, signed |-> signed]

\* the payload of an access token also carries the role of its user
AccessToken(id, role, iat, signed) ==
    [id |-> id, type |-> "access", role |-> role, iat |-> iat, signed |-> signed]

GenerateAccessToken(userId) == AccessToken(userId, users[userId].role, now, TRUE)

GenerateRefreshToken(userId) == Token(userId, "refresh", now, TRUE)

\* jwt.verify with the refresh secret: the signature, then exp = iat + expiresIn
Verify(token) ==
    /\ token.signed
    /\ now < token.iat + (IF token.type = "refresh" THEN RefreshExpire ELSE AccessExpire)

\* AddRefreshToken keeping the first 5 tokens
AddRefreshTokenKeepFirst(refreshTokens, token) ==
    LET pushed == Append(refreshTokens, token)
    IN  IF Len(pushed) > MaxRefreshTokens
        THEN SubSeq(pushed, 1, MaxRefreshTokens)
        ELSE pushed

\* push, then slice(-5)
AddRefreshToken(refreshTokens, token) ==
    LET pushed == Append(refreshTokens, token)
    IN  IF Len(pushed) > MaxRefreshTokens
        THEN SubSeq(pushed, Len(pushed) - MaxRefreshTokens + 1, Len(pushed))
        ELSE pushed

\* filter(refreshToken.token !== token)
RemoveRefreshToken(refreshTokens, token) ==
    SelectSeq(refreshTokens, LAMBDA rt : rt # token)

\* refreshTokens.some(rt.token === token)
Stored(refreshTokens, token) ==
    \E i \in 1..Len(refreshTokens) : refreshTokens[i] = token

----------------------------------------------------------------------------
(* login: UserService.authenticateUser, then UserService.generateTokens *)

ErrInvalidCredentials == "Invalid credentials"
ErrInactive == "Account is inactive. Please contact administrator."
ErrInvalidOrExpired == "Invalid or expired refresh token"
ErrUserNotFound == "User not found"

\* the error authenticateUser throws, or Ok; login names the user by its id
AuthenticateCheck(login, password) ==
    IF login \notin DOMAIN users THEN ErrInvalidCredentials
    ELSE IF ~users[login].isActive THEN ErrInactive
    ELSE IF users[login].password # password THEN ErrInvalidCredentials
    ELSE Ok

\* LastLogin written on every attempt
LastLoginAlways(login, check) ==
    IF login \in DOMAIN users THEN now ELSE 0

\* user.lastLogin after authenticateUser
LastLogin(login, check) ==
    IF check = Ok THEN now
    ELSE IF login \in DOMAIN users THEN users[login].lastLogin
    ELSE 0

Login(login, password) ==
    LET check == AuthenticateCheck(login, password)
        req == [login |-> login, password |-> password]
        response == Response("login", None, req, check)
        refreshToken == GenerateRefreshToken(login)
    IN  /\ Idle
        /\ IF login \notin DOMAIN users
           THEN /\ users' = users
                /\ resp' = response
           ELSE /\ users' = [users EXCEPT
                               ![login].lastLogin = LastLogin(login, check),
                               ![login].refreshTokens =
                                   IF check = Ok THEN AddRefreshToken(@, refreshToken) ELSE @]
                /\ resp' = IF check = Ok
                           THEN [response EXCEPT
                                   !.tokens = <<GenerateAccessToken(login), refreshToken>>]
                           ELSE response
        /\ UNCHANGED <<buses, locations, nextLocId, now, routes, operators, calls>>

----------------------------------------------------------------------------

(* UserService.refreshUserTokens *)

\* RefreshCheck without the look-up in the stored list
RefreshCheckNoStoredList(refreshToken) ==
    IF ~Verify(refreshToken) THEN ErrInvalidOrExpired
    ELSE IF refreshToken.id \notin DOMAIN users THEN ErrInvalidOrExpired
    ELSE IF ~users[refreshToken.id].isActive THEN ErrInvalidOrExpired
    ELSE Ok

\* every error thrown inside the try block is rethrown as ErrInvalidOrExpired
RefreshCheck(refreshToken) ==
    IF ~Verify(refreshToken) THEN ErrInvalidOrExpired
    ELSE IF refreshToken.id \notin DOMAIN users THEN ErrInvalidOrExpired
    ELSE IF ~Stored(users[refreshToken.id].refreshTokens, refreshToken)
         THEN ErrInvalidOrExpired
    ELSE IF ~users[refreshToken.id].isActive THEN ErrInvalidOrExpired
    ELSE Ok

RefreshUserTokens(refreshToken) ==
    LET check == RefreshCheck(refreshToken)
        response == Response("refreshUserTokens", None, [refreshToken |-> refreshToken], check)
        userId == refreshToken.id
        newRefreshToken == GenerateRefreshToken(userId)
    IN  /\ Idle
        /\ IF check # Ok
           THEN /\ users' = users
                /\ resp' = response
           ELSE /\ users' = [users EXCEPT ![userId].refreshTokens =
                               AddRefreshToken(RemoveRefreshToken(@, refreshToken),
                                               newRefreshToken)]
                /\ resp' = [response EXCEPT
                              !.tokens = <<GenerateAccessToken(userId), newRefreshToken>>]
        /\ UNCHANGED <<buses, locations, nextLocId, now, routes, operators, calls>>

----------------------------------------------------------------------------
(* logout: protect, then UserService.logoutUser *)

\* refreshToken is optional: <<>> or <<token>>
LogoutUser(userId, refreshToken) ==
    LET req == [userId |-> userId, refreshToken |-> refreshToken]
    IN  /\ Idle
        /\ userId \in DOMAIN users
        /\ IF ~users[userId].isActive
           \* protect answers 401 and the service is not called
           THEN /\ users' = users
                /\ resp' = Response("logoutUser", None, req, ErrInactive)
           ELSE /\ users' = IF refreshToken = <<>> THEN users
                            ELSE [users EXCEPT ![userId].refreshTokens =
                                     RemoveRefreshToken(@, refreshToken[1])]
                /\ resp' = Response("logoutUser", None, req, Ok)
        /\ UNCHANGED <<buses, locations, nextLocId, now, routes, operators, calls>>

----------------------------------------------------------------------------
(* refreshUserTokens and logoutUser, step by step: each await is a step, and
   a step of one call may run between two steps of another *)

\* a save of c's copy has moved the stored document's version: every other
\* loaded copy of the same user is now behind it
OthersBehind(c, userId) ==
    [d \in CallIds |->
        IF d # c /\ calls[d].pc \in {"found", "cleared"} /\ calls[d].userId = userId
        THEN [calls[d] EXCEPT !.behind = TRUE]
        ELSE calls[d]]

\* jwt.verify, User.findById and the checks on the loaded document; the new
\* pair is generated before the first save
RefreshLoad(c, refreshToken) ==
    LET check == RefreshCheck(refreshToken)
        userId == refreshToken.id
        call == [NoCall EXCEPT !.op = "refresh", !.userId = userId,
                               !.refreshToken = refreshToken]
    IN  /\ calls[c].pc = "idle"
        /\ calls' = [calls EXCEPT ![c] =
                        IF check # Ok
                        THEN [call EXCEPT !.pc = "done", !.status = check]
                        ELSE [call EXCEPT
                                !.pc = "found",
                                !.newRefreshToken = GenerateRefreshToken(userId),
                                !.refreshTokens = users[userId].refreshTokens]]
        /\ UNCHANGED <<buses, locations, nextLocId, now, resp, routes, operators, users>>

\* user.removeRefreshToken(refreshToken): the filtered array replaces the
\* copy's array and save() writes the whole array, which the store accepts only
\* from a copy whose version is the stored one; a VersionError is rethrown as
\* ErrInvalidOrExpired
RefreshRemove(c) ==
    LET call == calls[c]
        filtered == RemoveRefreshToken(call.refreshTokens, call.refreshToken)
    IN  /\ call.op = "refresh"
        /\ call.pc = "found"
        /\ IF call.userId \notin DOMAIN users \/ call.behind
           THEN /\ calls' = [calls EXCEPT ![c].pc = "done",
                                          ![c].status = ErrInvalidOrExpired]
                /\ users' = users
           ELSE /\ calls' = [OthersBehind(c, call.userId) EXCEPT
                               ![c].pc = "cleared",
                               ![c].refreshTokens = filtered]
                /\ users' = [users EXCEPT ![call.userId].refreshTokens = filtered]
        /\ UNCHANGED <<buses, locations, nextLocId, now, resp, routes, operators>>

\* user.addRefreshToken(newRefreshToken): a push is sent as $push and appended
\* to the stored array whatever its version; once the copy is cut to its last
\* 5 the whole array is written, as in removeRefreshToken
RefreshAdd(c) ==
    LET call == calls[c]
        pushed == Append(call.refreshTokens, call.newRefreshToken)
        sliced == AddRefreshToken(call.refreshTokens, call.newRefreshToken)
    IN  /\ call.op = "refresh"
        /\ call.pc = "cleared"
        /\ IF call.userId \notin DOMAIN users
              \/ (Len(pushed) > MaxRefreshTokens /\ call.behind)
           THEN /\ calls' = [calls EXCEPT ![c].pc = "done",
                                          ![c].status = ErrInvalidOrExpired]
                /\ users' = users
           ELSE /\ calls' = [OthersBehind(c, call.userId) EXCEPT
                               ![c].pc = "done",
                               ![c].refreshTokens = sliced]
                /\ users' = [users EXCEPT ![call.userId].refreshTokens =
                               IF Len(pushed) > MaxRefreshTokens
                               THEN sliced
                               ELSE Append(@, call.newRefreshToken)]
        /\ UNCHANGED <<buses, locations, nextLocId, now, resp, routes, operators>>

\* protect loads req.user; an inactive user is answered 401 and the service is
\* not called
LogoutLoad(c, userId, refreshToken) ==
    LET call == [NoCall EXCEPT !.op = "logout", !.userId = userId,
                               !.refreshToken = refreshToken]
    IN  /\ calls[c].pc = "idle"
        /\ userId \in DOMAIN users
        /\ calls' = [calls EXCEPT ![c] =
                        IF ~users[userId].isActive
                        THEN [call EXCEPT !.pc = "done", !.status = ErrInactive]
                        ELSE [call EXCEPT
                                !.pc = "found",
                                !.refreshTokens = users[userId].refreshTokens]]
        /\ UNCHANGED <<buses, locations, nextLocId, now, resp, routes, operators, users>>

\* user.removeRefreshToken(refreshToken) of logoutUser: an array the filter
\* leaves as it was is not written; a VersionError is answered 500
LogoutRemove(c) ==
    LET call == calls[c]
        filtered == RemoveRefreshToken(call.refreshTokens, call.refreshToken)
    IN  /\ call.op = "logout"
        /\ call.pc = "found"
        /\ IF filtered = call.refreshTokens
           THEN /\ calls' = [calls EXCEPT ![c].pc = "done"]
                /\ users' = users
           ELSE IF call.userId \notin DOMAIN users \/ call.behind
           THEN /\ calls' = [calls EXCEPT ![c].pc = "done", ![c].status = ErrStore]
                /\ users' = users
           ELSE /\ calls' = [OthersBehind(c, call.userId) EXCEPT
                               ![c].pc = "done",
                               ![c].refreshTokens = filtered]
                /\ users' = [users EXCEPT ![call.userId].refreshTokens = filtered]
        /\ UNCHANGED <<buses, locations, nextLocId, now, resp, routes, operators>>

----------------------------------------------------------------------------

(* UserService.updateUserByAdmin *)

\* updateData.role and updateData.isActive are optional: an absent value leaves
\* the field as it is
UpdateUserByAdmin(userId, role, isActive) ==
    LET req == [userId |-> userId, role |-> role, isActive |-> isActive]
    IN  /\ Idle
        /\ IF userId \notin DOMAIN users
           THEN /\ users' = users
                /\ resp' = Response("updateUserByAdmin", None, req, ErrUserNotFound)
           ELSE /\ users' = [users EXCEPT
                               ![userId].role = IF role = <<>> THEN @ ELSE role[1],
                               ![userId].isActive =
                                   IF isActive = <<>> THEN @ ELSE isActive[1]]
                /\ resp' = Response("updateUserByAdmin", None, req, Ok)
        /\ UNCHANGED <<buses, locations, nextLocId, now, routes, operators, calls>>

----------------------------------------------------------------------------

(* protect, then authorize(...roles), in front of a protected route *)

ErrInvalidToken == "Invalid token."
ErrTokenUserNotFound == "Invalid token. User not found."
ErrDeniedRole == "Access denied. Required role"
ErrDeleteSelf == "You cannot delete your own account"

\* GuardCheck deciding on the role claim of the token
GuardCheckTokenRole(token, roles) ==
    IF ~Verify(token) THEN ErrInvalidToken
    ELSE IF token.id \notin DOMAIN users THEN ErrTokenUserNotFound
    ELSE IF ~users[token.id].isActive THEN ErrInactive
    ELSE IF token.role \notin roles THEN ErrDeniedRole
    ELSE Ok

\* the answer of the two middlewares, or Ok when the handler is reached:
\* req.user is the stored User document, and authorize reads req.user.role
GuardCheck(token, roles) ==
    IF ~Verify(token) THEN ErrInvalidToken
    ELSE IF token.id \notin DOMAIN users THEN ErrTokenUserNotFound
    ELSE IF ~users[token.id].isActive THEN ErrInactive
    ELSE IF users[token.id].role \notin roles THEN ErrDeniedRole
    ELSE Ok

ProtectedRequest(token, roles) ==
    /\ Idle
    /\ resp' = Response("protected", None, [token |-> token, roles |-> roles],
                        GuardCheck(token, roles))
    /\ UNCHANGED <<buses, locations, nextLocId, now, routes, operators, users, calls>>

----------------------------------------------------------------------------
(* UserService.deleteUser *)

DeleteUser(userId, adminUserId) ==
    LET req == [userId |-> userId, adminUserId |-> adminUserId]
        check == IF userId \notin DOMAIN users THEN ErrUserNotFound
                 ELSE IF userId = adminUserId THEN ErrDeleteSelf
                 ELSE Ok
    IN  /\ Idle
        /\ resp' = Response("deleteUser", None, req, check)
        /\ users' = IF check = Ok THEN Without(users, userId) ELSE users
        /\ UNCHANGED <<buses, locations, nextLocId, now, routes, operators, calls>>

----------------------------------------------------------------------------

(* Accounts: register of the auth controller, createAdmin and createUser of
   the admin controller, all on UserService.createUser *)

ErrValidation == "Validation failed"
ErrUserExists == "User with this email or username already exists"
ErrRoleEnum == "Role must be one of: admin, user"

\* validateRegister on body("role"): optional, one of three names; the other
\* fields of the body are taken to pass
ValidateRegister(role) ==
    role = <<>> \/ role[1] \in {"admin", "user", "bus_operator"}

\* createUser: role = "user" unless userData carries one
RoleOf(role) == IF role = <<>> THEN "user" ELSE role[1]

\* the error User.create throws, or Ok: the unique index on username and the
\* enum of the schema's role; a user is named by its id
CreateUserCheck(userId, role) ==
    IF userId \in DOMAIN users THEN ErrDuplicateKey
    ELSE IF RoleOf(role) \notin {"admin", "user"} THEN ErrRoleEnum
    ELSE Ok

\* the document User.create stores
CreateUser(password, role) ==
    [UserDoc(password, None, TRUE, <<>>) EXCEPT !.role = RoleOf(role)]

\* POST /auth/register, public: req.body goes to createUser as it is, then
\* generateTokens
Register(userId, password, role) ==
    LET req == [userId |-> userId, password |-> password, role |-> role]
        check == IF ~ValidateRegister(role) THEN ErrValidation
                 ELSE IF userId \in DOMAIN users THEN ErrUserExists
                 ELSE CreateUserCheck(userId, role)
        response == Response("register", None, req, check)
        refreshToken == Token(userId, "refresh", now, TRUE)
        user == CreateUser(password, role)
    IN  /\ Idle
        /\ IF check # Ok
           THEN /\ users' = users
                /\ resp' = response
           ELSE /\ users' = With(users, userId,
                                 [user EXCEPT !.refreshTokens =
                                     AddRefreshToken(@, refreshToken)])
                /\ resp' = [response EXCEPT
                              !.tokens = <<AccessToken(userId, user.role, now, TRUE),
                                           refreshToken>>]
        /\ UNCHANGED <<buses, locations, nextLocId, now, routes, operators, calls>>

\* POST /admin/create-admin, behind protect and authorize("admin"): the role
\* of the body is replaced by "admin"
CreateAdmin(token, userId, password, role) ==
    LET req == [token |-> token, userId |-> userId, password |-> password,
                role |-> role]
        guard == GuardCheck(token, {"admin"})
        check == IF guard # Ok THEN guard
                 ELSE IF ~ValidateRegister(role) THEN ErrValidation
                 ELSE CreateUserCheck(userId, <<"admin">>)
    IN  /\ Idle
        /\ resp' = Response("createAdmin", None, req, check)
        /\ users' = IF check = Ok
                    THEN With(users, userId, CreateUser(password, <<"admin">>))
                    ELSE users
        /\ UNCHANGED <<buses, locations, nextLocId, now, routes, operators, calls>>

\* POST /admin/users, behind protect and authorize("admin")
AdminCreateUser(token, userId, password, role) ==
    LET req == [token |-> token, userId |-> userId, password |-> password,
                role |-> role]
        guard == GuardCheck(token, {"admin"})
        check == IF guard # Ok THEN guard
                 ELSE IF ~ValidateRegister(role) THEN ErrValidation
                 ELSE CreateUserCheck(userId, role)
    IN  /\ Idle
        /\ resp' = Response("createUser", None, req, check)
        /\ users' = IF check = Ok
                    THEN With(users, userId, CreateUser(password, role))
                    ELSE users
        /\ UNCHANGED <<buses, locations, nextLocId, now, routes, operators, calls>>

----------------------------------------------------------------------------

(* The catch blocks of the controllers: the HTTP status of a service error *)

\* the messages m with m.includes("not found")
IncludesNotFound(message) ==
    message \in {ErrDeniedFleet, ErrLocationNotFound, ErrRouteNotFound, ErrInvalidRoute,
                 ErrOperatorNotFound, ErrUserNotFound, ErrTokenUserNotFound}

\* updateBusLocation of the location controller
UpdateLocationHttp(message) ==
    IF message = Ok THEN 201
    ELSE IF IncludesNotFound(message) THEN 404
    ELSE 500

\* deleteRoute of the route controller
DeleteRouteHttp(message) ==
    IF message = Ok THEN 200
    ELSE IF message = "Route not found" THEN 404
    ELSE IF message = "Cannot delete route with active buses" THEN 400
    ELSE 500

\* createBus of the bus controller
CreateBusHttp(message) ==
    IF message = Ok THEN 201
    ELSE IF message = "Bus with this number already exists" THEN 400
    ELSE IF message \in {"Invalid operator", "Invalid route", "Unauthorized access"} THEN 400
    ELSE 500

\* the status code the controller answers the call r with
HttpStatus(r) ==
    CASE r.op = "updateBusLocation" -> UpdateLocationHttp(r.status)
      [] r.op = "deleteRoute" -> DeleteRouteHttp(r.status)
      [] r.op = "createBus" -> CreateBusHttp(r.status)
      [] OTHER -> 200

----------------------------------------------------------------------------

(* The controller sends the response; the next request can be served *)

Respond ==
    /\ ~Idle
    /\ resp' = NoResponse
    /\ UNCHANGED <<buses, locations, nextLocId, now, routes, operators, users, calls>>

----------------------------------------------------------------------------

(* Ingest: every request body, callers inside and outside their scope *)

IngestUsers ==
    { User("admin", None, None),
      User("operator", "o1", None),
      User("driver", "o1", "b1") }

Next ==
    \/ Tick
    \/ Respond
    \/ \E busId \in BusIds, c \in CoordinateInputs, timestamp \in TimestampInputs,
          user \in IngestUsers :
          UpdateBusLocation(busId, c[1], c[2], timestamp, user)

Spec == Init /\ [][Next]_vars

----------------------------------------------------------------------------
(* Access control: every caller on every per-bus operation *)

AccessCoordinateInputs == {<<7, 80>>, <<91, 80>>}

NextAccess ==
    \/ Tick
    \/ Respond
    \/ \E busId \in BusIds, c \in AccessCoordinateInputs, user \in Users :
          UpdateBusLocation(busId, c[1], c[2], <<>>, user)
    \/ \E busId \in BusIds, user \in Users : GetBusLocation(busId, user)
    \/ \E busId \in BusIds, user \in Users :
          GetBusLocationHistory(busId, DefaultLimit, 1, <<>>, <<>>, user)
    \/ \E busId \in BusIds, user \in Users : GetBusLocationStats(busId, user)

SpecAccess == Init /\ [][NextAccess]_vars

----------------------------------------------------------------------------
(* History: an admin fills the store, then pages through it *)

\* <<startDate, endDate>> of a history request, each optional
DateRanges == {<< <<>>, <<>> >>, << <<2>>, <<>> >>, << <<>>, <<1>> >>}

NextHistory ==
    \/ Tick
    \/ Respond
    \/ \E busId \in BusIds, timestamp \in TimestampInputs :
          UpdateBusLocation(busId, 7, 80, timestamp, Admin)
    \/ \E busId \in BusIds : GetBusLocation(busId, Admin)
    \/ \E busId \in BusIds, limit \in 1..MaxLimit, page \in 1..MaxPage, range \in DateRanges :
          GetBusLocationHistory(busId, limit, page, range[1], range[2], Admin)

SpecHistory == Init /\ [][NextHistory]_vars

----------------------------------------------------------------------------
(* Proximity: an admin fills the store, then searches around a point *)

NearbyCoordinateInputs == {<<7, 80>>, <<8, 80>>}

\* <<latitude, longitude>> of a nearby request
CentreInputs == {<<7, 80>>, <<91, 80>>}

\* radius of a nearby request, in km
RadiusInputs == {5, 111}

InitNearby ==
    /\ \E status \in {"active", "inactive"} :
          buses = [b \in {"b1", "b2"} |->
                     [busId |-> IF b = "b1" THEN 101000 ELSE 101001,
                      busNumber |-> IF b = "b1" THEN "NB-1" ELSE "NB-2",
                      routeId |-> "r1",
                      operatorId |-> IF b = "b1" THEN "o1" ELSE "o2",
                      status |-> IF b = "b1" THEN "active" ELSE status,
                      currentLocation |-> NoPoint,
                      lastUpdated |-> 0]]
    /\ locations = {}
    /\ nextLocId = 1
    /\ now = 1
    /\ resp = NoResponse
    /\ routes = SeedRoutes
    /\ operators = SeedOperators
    /\ users = SeedUsers
    /\ calls = NoCalls

NextNearby ==
    \/ Tick
    \/ Respond
    \/ \E busId \in BusIds, c \in NearbyCoordinateInputs, timestamp \in TimestampInputs :
          UpdateBusLocation(busId, c[1], c[2], timestamp, Admin)
    \/ \E c \in CentreInputs, radiusInKm \in RadiusInputs :
          GetBusesNearLocation(c[1], c[2], radiusInKm)

SpecNearby == InitNearby /\ [][NextNearby]_vars

----------------------------------------------------------------------------
(* Retention: pings of any age are stored, then old ones are cleaned up *)

\* client-supplied timestamps: absent, a day before the first tick, a second
\* later than that, and 91 days before the first tick
CleanupTimestampInputs == {<<>>, <<1 - Day>>, <<2 - Day>>, <<1 - 91 * Day>>}

\* daysToKeep of a cleanup
RetentionInputs == {0, 1, DefaultDaysToKeep}

NextCleanup ==
    \/ Tick
    \/ Respond
    \/ \E busId \in {"b1", "b2"}, timestamp \in CleanupTimestampInputs :
          UpdateBusLocation(busId, 7, 80, timestamp, Admin)
    \/ \E daysToKeep \in RetentionInputs : CleanupOldLocations(daysToKeep)

SpecCleanup == Init /\ [][NextCleanup]_vars

----------------------------------------------------------------------------
(* Fleet directory: routes, buses and operators are created, changed, deleted *)

\* ids a request can carry; "r4" and "o5" are well formed and match no document
RouteIds == {"r1", "r2", "r3", "r4"}

OperatorIds == {"o1", "o2", "o3", "o4", "o5"}

\* busNumber of a request body: one taken, one free
BusNumberInputs == {"NB-1", "NB-9"}

\* updateData.isActive: absent, true or false
IsActiveInputs == {<<>>, <<TRUE>>, <<FALSE>>}

FleetUsers == {Admin, User("operator", "o1", None)}

NextFleet ==
    \/ Respond
    \/ \E routeId \in RouteIds : DeleteRoute(routeId)
    \/ \E busNumber \in BusNumberInputs, routeId \in RouteIds, user \in FleetUsers :
          CreateBus(busNumber, routeId, user)
    \/ \E busNumber \in BusNumberInputs, routeId \in RouteIds :
          CreateBusOperatorVariant(busNumber, routeId, "o4")
    \/ \E operatorId \in OperatorIds : DeleteOperator(operatorId)
    \/ \E operatorId \in OperatorIds : ToggleOperatorStatus(operatorId)
    \/ \E operatorId \in OperatorIds, isActive \in IsActiveInputs, user \in FleetUsers :
          UpdateOperator(operatorId, isActive, user)

SpecFleet == Init /\ [][NextFleet]_vars

----------------------------------------------------------------------------
(* Sessions: log in, refresh, log out, while an admin switches accounts *)

\* a refresh token issued more than 7 days before the first tick
ExpiredToken == Token("u1", "refresh", 1 - RefreshExpire, TRUE)

\* u1 still stores an expired token; u2 was deactivated while it stored a token
InitAuth ==
    /\ buses = [b \in {} |-> 0]
    /\ locations = {}
    /\ nextLocId = 1
    /\ now = 1
    /\ resp = NoResponse
    /\ routes = SeedRoutes
    /\ operators = SeedOperators
    /\ users = [SeedUsers EXCEPT
                  !["u1"].refreshTokens = <<ExpiredToken>>,
                  !["u2"].isActive = FALSE,
                  !["u2"].refreshTokens = <<Token("u2", "refresh", 1, TRUE)>>]
    /\ calls = NoCalls

\* login of a request body, as the id of the user it names; "u9" names none
LoginInputs == {"u1", "u2", "u9"}

PasswordInputs == {"secret1", "wrong"}

\* tokens a client can present: of any user, signed in any second, by any key
RefreshTokenInputs ==
    {Token(id, "refresh", iat, signed) :
        id \in LoginInputs, iat \in {1 - RefreshExpire} \cup 1..MaxTime, signed \in BOOLEAN}
    \cup {AccessToken("u1", "user", iat, TRUE) : iat \in 1..MaxTime}

\* tokens a client hands to logout
LogoutTokenInputs ==
    {<<>>} \cup {<<Token("u1", "refresh", iat, TRUE)>> : iat \in 1..MaxTime}

NextAuth ==
    \/ Tick
    \/ Respond
    \/ \E login \in LoginInputs, password \in PasswordInputs : Login(login, password)
    \/ \E refreshToken \in RefreshTokenInputs : RefreshUserTokens(refreshToken)
    \/ \E refreshToken \in LogoutTokenInputs : LogoutUser("u1", refreshToken)
    \/ \E isActive \in IsActiveInputs : UpdateUserByAdmin("u1", <<>>, isActive)

SpecAuth == InitAuth /\ [][NextAuth]_vars

----------------------------------------------------------------------------
(* Guarded routes: accounts change while their access tokens are in use *)

\* u1 is an admin, u2 a user
InitGuard ==
    /\ buses = [b \in {} |-> 0]
    /\ locations = {}
    /\ nextLocId = 1
    /\ now = 1
    /\ resp = NoResponse
    /\ routes = SeedRoutes
    /\ operators = SeedOperators
    /\ users = [SeedUsers EXCEPT !["u1"].role = "admin"]
    /\ calls = NoCalls

Roles == {"admin", "user"}

\* updateData.role: absent or a role of the schema
RoleInputs == {<<>>} \cup {<<role>> : role \in Roles}

\* the roles a route is opened to by authorize(...)
RouteRoles == {{"admin"}, {"user", "admin", "bus_operator"}}

\* access tokens a client can present: signed in any second or 15 minutes
\* before the first tick, by the server's key or another
AccessTokenInputs ==
    {AccessToken(id, role, iat, signed) :
        id \in LoginInputs, role \in Roles,
        iat \in {1 - AccessExpire} \cup 1..MaxTime, signed \in BOOLEAN}

NextGuard ==
    \/ Tick
    \/ Respond
    \/ \E password \in PasswordInputs : Login("u1", password)
    \/ \E token \in AccessTokenInputs, roles \in RouteRoles :
          ProtectedRequest(token, roles)
    \/ \E userId \in {"u1", "u9"}, role \in RoleInputs, isActive \in IsActiveInputs :
          UpdateUserByAdmin(userId, role, isActive)
    \/ \E userId \in LoginInputs : DeleteUser(userId, "u2")

SpecGuard == InitGuard /\ [][NextGuard]_vars

----------------------------------------------------------------------------

(* HTTP boundary: the three controllers in front of their services *)

NextHttp ==
    \/ Respond
    \/ \E busId \in BusIds, c \in AccessCoordinateInputs, user \in IngestUsers :
          UpdateBusLocation(busId, c[1], c[2], <<>>, user)
    \/ \E routeId \in RouteIds : DeleteRoute(routeId)
    \/ \E busNumber \in BusNumberInputs, routeId \in RouteIds, user \in FleetUsers :
          CreateBus(busNumber, routeId, user)

SpecHttp == Init /\ [][NextHttp]_vars

----------------------------------------------------------------------------

(* Bus listing: every caller lists the fleet while buses report positions *)

\* filters.status and filters.routeId of a listing: absent or a value
StatusInputs == {<<>>, <<"active">>}

RouteIdInputs == {<<>>, <<"r1">>}

BusLimitInputs == {1, DefaultBusLimit}

NextListing ==
    \/ Tick
    \/ Respond
    \/ \E busId \in {"b1", "b2"} : UpdateBusLocation(busId, 7, 80, <<>>, Admin)
    \/ \E status \in StatusInputs, routeId \in RouteIdInputs, limit \in BusLimitInputs,
          page \in 1..MaxPage, user \in Users :
          GetAllBuses(status, routeId, limit, page, user)
    \/ \E status \in StatusInputs, routeId \in RouteIdInputs, limit \in BusLimitInputs,
          page \in 1..MaxPage, user \in Users :
          GetAllBusesAdminVariant(status, routeId, limit, page, user)

SpecListing == Init /\ [][NextListing]_vars

----------------------------------------------------------------------------

(* Races on a bus: two updates in flight together *)

NextRace ==
    \/ Tick
    \/ \E c \in CallIds, busId \in {"b1", "b3"}, p \in NearbyCoordinateInputs,
          timestamp \in TimestampInputs :
          UpdateCreateLocation(c, busId, p[1], p[2], timestamp, Admin)
    \/ \E c \in CallIds : UpdateWriteBus(c)

SpecRace == Init /\ [][NextRace]_vars

----------------------------------------------------------------------------

(* Referential integrity: buses are moved, and created while routes are    *)
(* deleted by calls in flight together                                     *)

\* updateData.busNumber and updateData.routeId: absent or a value
OptionalBusNumberInputs == {<<>>, <<"NB-2">>}

OptionalRouteIdInputs == {<<>>, <<"r2">>, <<"r4">>}

NextIntegrity ==
    \/ Respond
    \/ \E busId \in {"b1", "b3"}, busNumber \in OptionalBusNumberInputs,
          routeId \in OptionalRouteIdInputs, user \in FleetUsers :
          UpdateBus(busId, busNumber, routeId, <<>>, user)
    \/ \E c \in CallIds, busNumber \in BusNumberInputs, routeId \in RouteIds :
          CreateBusRead(c, busNumber, routeId, Admin)
    \/ \E c \in CallIds : CreateBusInsert(c)
    \/ \E c \in CallIds, routeId \in RouteIds : DeleteRouteRead(c, routeId)
    \/ \E c \in CallIds : DeleteRouteWrite(c)

SpecIntegrity == Init /\ [][NextIntegrity]_vars

----------------------------------------------------------------------------

(* The Location store: pings arrive while buses, routes, operators and     *)
(* sessions change and old pings are cleaned up                            *)

\* u1 holds a refresh token issued at the first tick
InitStore ==
    /\ buses = [b \in {"b1", "b2"} |->
                  [busId |-> IF b = "b1" THEN 101000 ELSE 101001,
                   busNumber |-> IF b = "b1" THEN "NB-1" ELSE "NB-2",
                   routeId |-> "r1",
                   operatorId |-> IF b = "b1" THEN "o1" ELSE "o2",
                   status |-> "active",
                   currentLocation |-> NoPoint,
                   lastUpdated |-> 0]]
    /\ locations = {}
    /\ nextLocId = 1
    /\ now = 1
    /\ resp = NoResponse
    /\ routes = SeedRoutes
    /\ operators = SeedOperators
    /\ users = [SeedUsers EXCEPT
                  !["u1"].refreshTokens = <<Token("u1", "refresh", 1, TRUE)>>]
    /\ calls = NoCalls

NextStore ==
    \/ Respond
    \/ \E busId \in {"b1", "b2"}, timestamp \in {<<>>, <<1 - 91 * Day>>} :
          UpdateBusLocation(busId, 7, 80, timestamp, Admin)
    \/ CleanupOldLocations(DefaultDaysToKeep)
    \/ \E busId \in {"b1", "b3"}, user \in FleetUsers : DeleteBus(busId, user)
    \/ DeleteRoute("r2")
    \/ ToggleOperatorStatus("o2")
    \/ RefreshUserTokens(Token("u1", "refresh", 1, TRUE))

SpecStore == InitStore /\ [][NextStore]_vars

----------------------------------------------------------------------------

(* Naming a bus: the pre-save hook draws busIds while the clock runs *)

\* draws of Math.floor(100000 + Math.random() * 900000): the busIds of the
\* two buses and an unused one
RandomNumInputs == {101000, 101001, 500000}

\* the millisecond of the second at which Date.now() is read
MillisInputs == {0, 1, 500}

NextNaming ==
    \/ Tick
    \/ HookEnter("c1", "NB-9")
    \/ \E randomNum \in RandomNumInputs, ms \in MillisInputs :
          HookAttempt("c1", randomNum, ms)
    \/ \E ms \in MillisInputs : HookLeave("c1", ms)
    \/ HookSave("c1")

SpecNaming == Init /\ [][NextNaming]_vars

----------------------------------------------------------------------------

(* Orphans: a bus is deleted while it, or an id of no bus, reports a        *)
(* position                                                                *)

NextOrphans ==
    \/ Tick
    \/ \E busId \in {"b1", "b3"}, timestamp \in TimestampInputs :
          UpdateCreateLocation("c1", busId, 7, 80, timestamp, Admin)
    \/ UpdateWriteBus("c1")
    \/ \E busId \in {"b1", "b3"}, user \in FleetUsers : DeleteBusRead("c2", busId, user)
    \/ DeleteBusLocations("c2")
    \/ DeleteBusWrite("c2")

SpecOrphans == Init /\ [][NextOrphans]_vars

----------------------------------------------------------------------------

(* Rotation: two calls present the refresh token u1 has stored, each to     *)
(* refresh or to log out                                                    *)

\* the refresh token of u1 in the seed data of InitStore, issued in second 1
PresentedToken == Token("u1", "refresh", 1, TRUE)

NextRotation ==
    \/ Tick
    \/ \E c \in CallIds : RefreshLoad(c, PresentedToken)
    \/ \E c \in CallIds : RefreshRemove(c)
    \/ \E c \in CallIds : RefreshAdd(c)
    \/ \E c \in CallIds : LogoutLoad(c, "u1", PresentedToken)
    \/ \E c \in CallIds : LogoutRemove(c)

SpecRotation == InitStore /\ [][NextRotation]_vars

----------------------------------------------------------------------------

(* Accounts: the public registration next to the two admin endpoints that   *)
(* create users; u1 is the seeded admin                                     *)

\* req.body.role: absent, a role of the validator, or another name
BodyRoleInputs == {<<>>, <<"admin">>, <<"user">>, <<"bus_operator">>, <<"root">>}

\* usernames of a request body, as the id the user gets; "u1" is taken
NewUserInputs == {"u1", "u3", "u4"}

\* access tokens of the seeded admin u1 and of the user u2, by the server's
\* key or another
CallerTokenInputs ==
    {AccessToken(id, "user", 1, signed) : id \in {"u1", "u2"}, signed \in BOOLEAN}

NextAccounts ==
    \/ Tick
    \/ Respond
    \/ \E userId \in NewUserInputs, role \in BodyRoleInputs :
          Register(userId, "Secret3", role)
    \/ \E token \in CallerTokenInputs, userId \in NewUserInputs, role \in BodyRoleInputs :
          CreateAdmin(token, userId, "Secret3", role)
    \/ \E token \in CallerTokenInputs, userId \in NewUserInputs, role \in BodyRoleInputs :
          AdminCreateUser(token, userId, "Secret3", role)

SpecAccounts == InitGuard /\ [][NextAccounts]_vars

----------------------------------------------------------------------------

(* Vocabulary of the properties *)

ValidationErrors == {ErrRequired, ErrLatitude, ErrLongitude}

AccessErrors ==
    {ErrDeniedUpdate, ErrDeniedLocation, ErrDeniedHistory, ErrDeniedStats, ErrDeniedFleet}

InRange(latitude, longitude) ==
    /\ latitude >= -90 /\ latitude <= 90
    /\ longitude >= -180 /\ longitude <= 180

\* the access policy: admin everywhere, driver and user on the assigned bus,
\* operator on the buses of the own fleet
PolicyAllows(user, busId) ==
    \/ user.role = "admin"
    \/ user.role \in {"driver", "user"} /\ user.assignedBusId = busId
    \/ /\ user.role = "operator"
       /\ busId \in DOMAIN buses
       /\ buses[busId].operatorId = user.operatorId

Updated == resp.op = "updateBusLocation"

\* the request met updateBusLocation's precondition on the coordinates
UpdatePrecondition(r) ==
    r.op = "updateBusLocation" => InRange(r.req.latitude, r.req.longitude)

----------------------------------------------------------------------------
(* C1: an update with latitude in [-90,90] and longitude in [-180,180] by an  *)
(* actor the policy allows succeeds (unless the store rejects a write), and   *)
(* the latest location of the bus then carries exactly that coordinate pair.  *)

C1_ValidUpdateIsLatest ==
    ( /\ Updated
      /\ InRange(resp.req.latitude, resp.req.longitude)
      /\ PolicyAllows(resp.req.user, resp.busId)
      /\ resp.status # ErrStore )
    => /\ resp.status = Ok
       /\ \A l \in LatestLocations(resp.busId) :
             l.coordinates = <<resp.req.longitude, resp.req.latitude>>

----------------------------------------------------------------------------
(* C2: an update whose latitude is outside [-90,90] or whose longitude is     *)
(* outside [-180,180] fails with a validation error and leaves the Location   *)
(* collection and every Bus (currentLocation, lastUpdated) unchanged.         *)

C2_InvalidCoordinatesRejected ==
    [][ ( /\ resp'.op = "updateBusLocation"
          /\ ~InRange(resp'.req.latitude, resp'.req.longitude) )
        => /\ resp'.status \in ValidationErrors
           /\ locations' = locations
           /\ buses' = buses ]_vars

C2_Witness ==
    /\ Updated
    /\ resp.req.latitude > 90
    /\ resp.status = ErrLatitude

----------------------------------------------------------------------------
(* C3: a driver is denied with an access-denied error by updateBusLocation    *)
(* (on a request that meets its coordinate precondition), by                  *)
(* getBusLocationHistory and by getBusLocationStats for every bus other than  *)
(* the assigned one, also with no assigned bus, and the denied call writes    *)
(* nothing; on the assigned bus none of the three denies the driver.          *)

DriverOps == {"updateBusLocation", "getBusLocationHistory", "getBusLocationStats"}

----------------------------------------------------------------------------
(* C4: an operator is allowed by updateBusLocation, getBusLocation,           *)
(* getBusLocationHistory and getBusLocationStats only on a bus whose          *)
(* operatorId is the operator's own; on any other bus all four deny the call. *)

PerBusOps ==
    {"updateBusLocation", "getBusLocation", "getBusLocationHistory", "getBusLocationStats"}

C4_OperatorScopedToFleet ==
    ( /\ resp.op \in PerBusOps
      /\ resp.req.user.role = "operator"
      /\ UpdatePrecondition(resp)
      /\ ~PolicyAllows(resp.req.user, resp.busId) )
    => resp.status \in AccessErrors

----------------------------------------------------------------------------
(* C5: a user-role actor may update only the assigned bus: for any other bus, *)
(* and with no assigned bus, the update is denied and writes nothing.         *)

C5_UserScopedToAssignedBus ==
    [][ ( /\ resp'.op = "updateBusLocation"
          /\ resp'.req.user.role = "user"
          /\ resp'.req.user.assignedBusId # resp'.busId )
        => /\ locations' = locations
           /\ buses' = buses
           /\ UpdatePrecondition(resp') => resp'.status \in AccessErrors ]_vars

----------------------------------------------------------------------------
(* C6: an update is atomic for its caller: either it reports success, a new   *)
(* Location exists and the target Bus's currentLocation holds the same point, *)
(* or it reports failure and neither collection has changed.                  *)

C6_UpdateAtomic ==
    [][ resp'.op = "updateBusLocation"
        => \/ /\ resp'.status = Ok
              /\ resp'.location \in locations' \ locations
              /\ resp'.busId \in DOMAIN buses'
              /\ buses'[resp'.busId].currentLocation = resp'.location.coordinates
           \/ /\ resp'.status # Ok
              /\ locations' = locations
              /\ buses' = buses ]_vars

----------------------------------------------------------------------------
(* C7: after a successful update of a bus, Bus.currentLocation is the point   *)
(* of a Location with the greatest timestamp of that bus (one that            *)
(* getBusLocation can return), with or without client-supplied timestamps.    *)

C7_CurrentLocationIsLatest ==
    ( /\ Updated
      /\ resp.status = Ok
      /\ resp.busId \in DOMAIN buses )
    => \E l \in LatestLocations(resp.busId) :
          buses[resp.busId].currentLocation = l.coordinates

----------------------------------------------------------------------------
(* C8: when the N pings of a bus were created in strictly increasing          *)
(* timestamp order, its history with limit N, page 1 and no date filter is    *)
(* exactly those N records, newest first: the reverse of insertion order.     *)

History == resp.op = "getBusLocationHistory" /\ resp.status = Ok

\* the pings of busId, each created with a later timestamp than the one before
InsertedInIncreasingOrder(busId) ==
    \A l, m \in locations :
        (l.busId = busId /\ m.busId = busId /\ l.id < m.id) => l.timestamp < m.timestamp

PingsOf(busId) == {l \in locations : l.busId = busId}

C8_HistoryReversesInsertion ==
    ( /\ History
      /\ resp.req.page = 1
      /\ resp.req.startDate = <<>> /\ resp.req.endDate = <<>>
      /\ resp.req.limit = Cardinality(PingsOf(resp.busId))
      /\ InsertedInIncreasingOrder(resp.busId) )
    => /\ Len(resp.locations) = resp.req.limit
       /\ {resp.locations[i] : i \in 1..Len(resp.locations)} = PingsOf(resp.busId)
       /\ \A i, j \in 1..Len(resp.locations) :
             i < j => /\ resp.locations[i].timestamp > resp.locations[j].timestamp
                      /\ resp.locations[i].id > resp.locations[j].id

C8_Witness ==
    /\ History
    /\ resp.req.page = 1
    /\ resp.req.startDate = <<>> /\ resp.req.endDate = <<>>
    /\ resp.req.limit = 2
    /\ Cardinality(PingsOf(resp.busId)) = 2
    /\ InsertedInIncreasingOrder(resp.busId)
    /\ Len(resp.locations) = 2

----------------------------------------------------------------------------
(* C9: for positive limit and page, the history holds the records at          *)
(* newest-first positions (page-1)*limit+1 .. page*limit of the matching      *)
(* records; totalLocations counts the matching records, totalPages is         *)
(* ceil(totalLocations/limit), currentPage is page, count is the number       *)
(* returned; a page past the last is empty and no error.                      *)

\* the pings of busId inside the optional, inclusive date range
Matching(busId, startDate, endDate) ==
    {l \in PingsOf(busId) :
        /\ \A t \in {startDate[i] : i \in 1..Len(startDate)} : l.timestamp >= t
        /\ \A t \in {endDate[i] : i \in 1..Len(endDate)} : l.timestamp <= t}

\* l can stand at position g when M is listed newest first
AtPosition(l, g, M) ==
    /\ Cardinality({m \in M : m.timestamp > l.timestamp}) <= g - 1
    /\ Cardinality({m \in M : m.timestamp >= l.timestamp}) >= g

C9_HistoryPagination ==
    History =>
      LET limit == resp.req.limit
          page == resp.req.page
          M == Matching(resp.busId, resp.req.startDate, resp.req.endDate)
          total == Cardinality(M)
          first == (page - 1) * limit + 1
          last == IF page * limit < total THEN page * limit ELSE total
          found == resp.locations
      IN  /\ resp.pagination.totalLocations = total
          /\ resp.pagination.totalPages * limit >= total
          /\ (resp.pagination.totalPages - 1) * limit < total
          /\ resp.pagination.currentPage = page
          /\ resp.pagination.count = Len(found)
          /\ Len(found) = IF last >= first THEN last - first + 1 ELSE 0
          /\ \A i \in 1..Len(found) :
                found[i] \in M /\ AtPosition(found[i], first + i - 1, M)
          /\ \A i, j \in 1..Len(found) : i # j => found[i] # found[j]
          /\ page > resp.pagination.totalPages => found = <<>>

C9_Witness ==
    /\ History
    /\ resp.req.page = 2
    /\ resp.req.limit = 1
    /\ resp.pagination.totalPages = 2
    /\ Len(resp.locations) = 1

----------------------------------------------------------------------------
(* C10: a nearby search returns at most one row per bus, and every row's      *)
(* location lies no farther from the centre than the requested radius.        *)

Nearby == resp.op = "getBusesNearLocation" /\ resp.status = Ok

----------------------------------------------------------------------------
(* C11: every row of a nearby search is the bus's single latest Location     *)
(* over its whole history (a bus whose latest ping lies outside the radius   *)
(* is not reported at an older ping inside it), and the bus is active.       *)

C11_NearbyRowIsLatest ==
    Nearby =>
      \A i \in 1..Len(resp.nearbyBuses) :
         LET row == resp.nearbyBuses[i]
         IN  /\ row.busId \in DOMAIN buses
             /\ buses[row.busId].status = "active"
             /\ \E l \in LatestLocations(row.busId) :
                   /\ l.coordinates = row.coordinates
                   /\ l.timestamp = row.timestamp

----------------------------------------------------------------------------
(* C12: cleanup(daysToKeep) deletes exactly the Locations whose timestamp is *)
(* older than now minus daysToKeep days, returns how many it deleted, and    *)
(* keeps every Location that is not older than the cutoff.                   *)

Cleaned == resp.op = "cleanupOldLocations"

C12_CleanupDeletesExactlyOld ==
    [][ resp'.op = "cleanupOldLocations"
        => LET cutoff == now - resp'.req.daysToKeep * Day
           IN  /\ resp'.status = Ok
               /\ \A l \in locations : (l \in locations') <=> ~(l.timestamp < cutoff)
               /\ locations' \subseteq locations
               /\ resp'.deletedCount = Cardinality(locations \ locations') ]_vars

\* a cleanup that deleted one ping and kept one stamped exactly at the cutoff
C12_Witness ==
    /\ Cleaned
    /\ resp.deletedCount = 1
    /\ \E l \in locations : l.timestamp = now - resp.req.daysToKeep * Day

----------------------------------------------------------------------------
(* C13: deleteRoute on a route that at least one Bus references fails with   *)
(* the conflict error and leaves the Route and every Bus unchanged; the      *)
(* route is removed only when no Bus references it.                          *)

Referenced(routeId) == \E b \in DOMAIN buses : buses[b].routeId = routeId

C13_ReferencedRouteNotDeleted ==
    [][ resp'.op = "deleteRoute"
        => LET routeId == resp'.req.routeId
           IN  /\ (routeId \in DOMAIN routes /\ Referenced(routeId))
                     => /\ resp'.status = ErrRouteHasBuses
                        /\ routes' = routes
               /\ buses' = buses
               /\ routes' # routes
                     => /\ ~Referenced(routeId)
                        /\ resp'.status = Ok
                        /\ DOMAIN routes' = DOMAIN routes \ {routeId}
               /\ (routeId \in DOMAIN routes /\ ~Referenced(routeId))
                     => routeId \notin DOMAIN routes' ]_vars

\* the deletion of a route is refused because of a bus created on it
C13_Witness ==
    /\ resp.op = "deleteRoute"
    /\ resp.status = ErrRouteHasBuses
    /\ resp.req.routeId = "r2"
    /\ "r2" \in DOMAIN routes

----------------------------------------------------------------------------
(* C14: createBus by an admin fails with the duplicate error when a Bus with *)
(* the same busNumber exists, and with the invalid-route error when the      *)
(* referenced Route does not exist or is inactive; in both cases no Bus is   *)
(* created.                                                                  *)

InvalidRoute(routeId) == routeId \notin DOMAIN routes \/ ~routes[routeId].isActive

C14_CreateBusRejectsDuplicateAndBadRoute ==
    [][ ( /\ resp'.op = "createBus"
          /\ resp'.req.user.role = "admin" )
        => /\ BusNumberExists(resp'.req.busNumber)
                 => /\ resp'.status = ErrBusExists
                    /\ buses' = buses
           /\ InvalidRoute(resp'.req.routeId)
                 => /\ resp'.status \in {ErrBusExists, ErrInvalidRoute}
                    /\ buses' = buses ]_vars

----------------------------------------------------------------------------
(* C15: deleteOperator fails with a conflict error and leaves the Operator   *)
(* in the store whenever a Bus or a User has that operatorId; the operator   *)
(* is deleted only when it owns no Bus and no User.                          *)

Owns(operatorId) ==
    \/ \E b \in DOMAIN buses : buses[b].operatorId = operatorId
    \/ \E u \in DOMAIN users : users[u].operatorId = operatorId

C15_OwningOperatorNotDeleted ==
    [][ resp'.op = "deleteOperator"
        => LET operatorId == resp'.req.operatorId
           IN  /\ (operatorId \in DOMAIN operators /\ Owns(operatorId))
                     => /\ resp'.status \in {ErrOperatorHasBuses, ErrOperatorHasUsers}
                        /\ operators' = operators
               /\ operators' # operators
                     => /\ ~Owns(operatorId)
                        /\ resp'.status = Ok
                        /\ DOMAIN operators' = DOMAIN operators \ {operatorId}
               /\ (operatorId \in DOMAIN operators /\ ~Owns(operatorId))
                     => operatorId \notin DOMAIN operators'
               /\ buses' = buses /\ users' = users ]_vars

\* the deletion of an operator that owns a user and no bus is refused
C15_Witness ==
    /\ resp.op = "deleteOperator"
    /\ resp.status = ErrOperatorHasUsers
    /\ resp.req.operatorId \in DOMAIN operators
    /\ \A b \in DOMAIN buses : buses[b].operatorId # resp.req.operatorId

----------------------------------------------------------------------------
(* C16: after any operation that takes an operator's isActive from true to   *)
(* false, every Bus with that operatorId has status inactive and every User  *)
(* with that operatorId has isActive false.                                  *)

Deactivated(operatorId) ==
    /\ operatorId \in DOMAIN operators /\ operators[operatorId].isActive
    /\ operatorId \in DOMAIN operators' /\ ~operators'[operatorId].isActive

C16_DeactivationCascades ==
    [][ \A operatorId \in OperatorIds :
           Deactivated(operatorId)
           => /\ \A b \in DOMAIN buses' :
                    buses'[b].operatorId = operatorId => buses'[b].status = "inactive"
              /\ \A u \in DOMAIN users' :
                    users'[u].operatorId = operatorId => ~users'[u].isActive ]_vars

----------------------------------------------------------------------------
(* C17: every login of an existing active user with a wrong password fails   *)
(* with the invalid-credentials error and leaves the user's isActive,        *)
(* lastLogin and stored refresh tokens (the whole User collection)           *)
(* unchanged; no lockout exists: whenever an active user presents the        *)
(* correct password, whatever came before, the login succeeds.               *)

LoggedIn == resp.op = "login"

ActiveUser(u) == u \in DOMAIN users /\ users[u].isActive

C17_WrongPasswordChangesNothing ==
    [][ ( /\ resp'.op = "login"
          /\ ActiveUser(resp'.req.login) )
        => IF resp'.req.password # users[resp'.req.login].password
           THEN /\ resp'.status = ErrInvalidCredentials
                /\ resp'.tokens = <<>>
                /\ users' = users
           ELSE /\ resp'.status = Ok
                /\ users'[resp'.req.login].isActive ]_vars

\* a wrong password is refused at a later second than the last login of a
\* user who holds refresh tokens
C17_Witness ==
    /\ LoggedIn
    /\ resp.req.login = "u1"
    /\ resp.req.password = "wrong"
    /\ resp.status = ErrInvalidCredentials
    /\ users["u1"].isActive
    /\ users["u1"].lastLogin > 0
    /\ users["u1"].lastLogin < now
    /\ Len(users["u1"].refreshTokens) > 1

----------------------------------------------------------------------------
(* C18: a user's stored refresh-token list never holds more than 5 tokens;   *)
(* a login or refresh appends its new token and, when that makes 6, drops    *)
(* the oldest one; refresh and logout remove the presented token; nothing    *)
(* else changes the list.                                                    *)

\* the last 5 of a list
Newest(refreshTokens) ==
    IF Len(refreshTokens) <= MaxRefreshTokens THEN refreshTokens
    ELSE Tail(refreshTokens)

\* the list without every entry that equals token
Minus(refreshTokens, token) ==
    LET keep == {i \in 1..Len(refreshTokens) : refreshTokens[i] # token}
        nth(k) == CHOOSE i \in keep : Cardinality({j \in keep : j < i}) = k - 1
    IN  [k \in 1..Cardinality(keep) |-> refreshTokens[nth(k)]]

C18_TokenListBounded ==
    [][ \A u \in DOMAIN users :
           LET before == users[u].refreshTokens
               after == users'[u].refreshTokens
               issued == resp'.status = Ok /\ resp'.tokens # <<>>
           IN  /\ Len(after) <= MaxRefreshTokens
               /\ IF resp'.op = "login" /\ issued /\ resp'.req.login = u
                  THEN after = Newest(before \o <<resp'.tokens[2]>>)
                  ELSE IF resp'.op = "refreshUserTokens" /\ issued
                          /\ resp'.req.refreshToken.id = u
                  THEN after = Newest(Minus(before, resp'.req.refreshToken)
                                         \o <<resp'.tokens[2]>>)
                  ELSE IF resp'.op = "logoutUser" /\ resp'.status = Ok
                          /\ resp'.req.userId = u /\ resp'.req.refreshToken # <<>>
                  THEN after = Minus(before, resp'.req.refreshToken[1])
                  ELSE after = before ]_vars

\* a login onto a full list: the token stored since before the first tick,
\* which no refresh and no logout of this model can remove, has been evicted
C18_Witness ==
    /\ LoggedIn
    /\ resp.status = Ok
    /\ resp.req.login = "u1"
    /\ Len(users["u1"].refreshTokens) = MaxRefreshTokens
    /\ ~Stored(users["u1"].refreshTokens, ExpiredToken)

----------------------------------------------------------------------------
(* C19: a successful refresh(t) rotates the token: afterwards t is absent    *)
(* from the user's stored list and the newly minted refresh token is         *)
(* present, so that a later refresh(t) fails.                                *)

Refreshed == resp.op = "refreshUserTokens"

C19_RefreshRotates ==
    ( /\ Refreshed
      /\ resp.status = Ok )
    => LET stored == users[resp.req.refreshToken.id].refreshTokens
       IN  /\ ~Stored(stored, resp.req.refreshToken)
           /\ Stored(stored, resp.tokens[2])
           /\ RefreshCheck(resp.req.refreshToken) # Ok

----------------------------------------------------------------------------
(* C20: refresh fails with the invalid-or-expired error whenever the token   *)
(* fails verification, is absent from the stored list of its user (or names  *)
(* no user), or belongs to an inactive account; every such failure leaves    *)
(* the User collection unchanged and returns no tokens.                      *)

Refusable(refreshToken) ==
    \/ ~refreshToken.signed
    \/ now >= refreshToken.iat + RefreshExpire
    \/ refreshToken.type # "refresh"
    \/ refreshToken.id \notin DOMAIN users
    \/ ~Stored(users[refreshToken.id].refreshTokens, refreshToken)
    \/ ~users[refreshToken.id].isActive

C20_BadRefreshRejected ==
    [][ ( /\ resp'.op = "refreshUserTokens"
          /\ Refusable(resp'.req.refreshToken) )
        => /\ resp'.status = ErrInvalidOrExpired
           /\ resp'.tokens = <<>>
           /\ users' = users ]_vars

\* a token that was valid and has been rotated away is refused
C20_Witness ==
    /\ Refreshed
    /\ resp.status = ErrInvalidOrExpired
    /\ resp.req.refreshToken.signed
    /\ resp.req.refreshToken.type = "refresh"
    /\ now < resp.req.refreshToken.iat + RefreshExpire
    /\ resp.req.refreshToken.id = "u1"
    /\ users["u1"].isActive
    /\ resp.req.refreshToken.iat < now
    /\ ~Stored(users["u1"].refreshTokens, resp.req.refreshToken)
    /\ users["u1"].lastLogin = resp.req.refreshToken.iat

----------------------------------------------------------------------------
(* C21: a protected request is decided on the stored User record, not on    *)
(* the claims of its access token: a token of a deleted or deactivated      *)
(* user is answered 401, and a request passes authorize only when the role  *)
(* stored for the user now is one of the route's roles.                     *)

Guarded == resp.op = "protected"

Unauthenticated == {ErrInvalidToken, ErrTokenUserNotFound, ErrInactive}

C21_GuardUsesLiveUser ==
    Guarded =>
      LET token == resp.req.token
      IN  /\ (token.id \notin DOMAIN users \/ ~users[token.id].isActive)
                => resp.status \in Unauthenticated
          /\ resp.status = Ok
                => /\ ActiveUser(token.id)
                   /\ users[token.id].role \in resp.req.roles
          /\ (ActiveUser(token.id) /\ Verify(token)
              /\ users[token.id].role \notin resp.req.roles)
                => resp.status = ErrDeniedRole

\* a token that u1 was given as an admin at login is refused on an
\* admin-only route after u1's role was changed to user
C21_Witness ==
    /\ Guarded
    /\ "u1" \in DOMAIN users
    /\ resp.req.token = AccessToken("u1", "admin", users["u1"].lastLogin, TRUE)
    /\ users["u1"].lastLogin > 0
    /\ users["u1"].role = "user"
    /\ users["u1"].isActive
    /\ resp.req.roles = {"admin"}
    /\ resp.status = ErrDeniedRole

----------------------------------------------------------------------------
(* C22: the controllers answer an access-denied failure of a location       *)
(* update with 403, a validation failure with 400, a missing entity with    *)
(* 404 and a conflict (duplicate bus number, route still referenced,        *)
(* invalid route on bus creation) with 400 or 409; none of these failures   *)
(* is answered 500.                                                         *)

HttpOps == {"updateBusLocation", "deleteRoute", "createBus"}

Conflicts == {ErrBusExists, ErrRouteHasBuses, ErrInvalidRoute}

C22_FailuresMappedToTaxonomy ==
    resp.op \in HttpOps =>
      /\ resp.status \in AccessErrors => HttpStatus(resp) = 403
      /\ resp.status \in ValidationErrors => HttpStatus(resp) = 400
      /\ resp.status = ErrRouteNotFound => HttpStatus(resp) = 404
      /\ resp.status \in Conflicts => HttpStatus(resp) \in {400, 409}
      /\ resp.status # ErrStore => HttpStatus(resp) # 500

----------------------------------------------------------------------------
(* C23: every bus that getAllBuses returns to an operator has the           *)
(* operator's operatorId, and getAllBuses returns to a driver no bus other  *)
(* than the assigned one, also when the driver has no assigned bus.         *)

Listed == resp.op = "getAllBuses"

C23_ListingRoleScoped ==
    Listed =>
      \A i \in 1..Len(resp.buses) :
         LET user == resp.req.user
             b == resp.buses[i]
         IN  /\ user.role = "operator" => buses[b].operatorId = user.operatorId
             /\ user.role = "driver" => b = user.assignedBusId

----------------------------------------------------------------------------
(* C24: when two updates of the same bus are in flight together, in every   *)
(* interleaving both Location records are appended, and once both have      *)
(* returned Bus.currentLocation is the point of the update whose Bus write  *)
(* committed last, whichever Location has the greater timestamp.            *)

\* the call has returned after passing validation
Returned(c) == calls[c].op = "updateBusLocation" /\ calls[c].pc = "done"

\* the Bus write of the call committed
Wrote(c) == Returned(c) /\ calls[c].order > 0

C24_LastBusWriteWins ==
    \A c, d \in CallIds :
       ( /\ c # d
         /\ Returned(c) /\ Returned(d)
         /\ calls[c].busId = calls[d].busId
         /\ calls[c].busId \in DOMAIN buses )
       => /\ calls[c].location \in locations
          /\ calls[d].location \in locations
          /\ calls[c].location # calls[d].location
          /\ (Wrote(c) /\ calls[c].order > calls[d].order)
                => buses[calls[c].busId].currentLocation = calls[c].coordinates

\* the update that created its Location first, with the older timestamp,
\* wrote the Bus last and its point is the current one
C24_Witness ==
    /\ Wrote("c1") /\ Wrote("c2")
    /\ calls["c1"].busId = "b1" /\ calls["c2"].busId = "b1"
    /\ calls["c1"].location.id < calls["c2"].location.id
    /\ calls["c1"].location.timestamp < calls["c2"].location.timestamp
    /\ calls["c1"].order > calls["c2"].order
    /\ calls["c1"].coordinates # calls["c2"].coordinates
    /\ buses["b1"].currentLocation = calls["c1"].coordinates

----------------------------------------------------------------------------
(* C25: in every reachable state, under every interleaving of createBus,    *)
(* updateBus and deleteRoute, the routeId of every Bus names a Route that   *)
(* exists in the store.                                                     *)

C25_BusRouteExists ==
    \A b \in DOMAIN buses : buses[b].routeId \in DOMAIN routes

----------------------------------------------------------------------------
(* C26: Location records are append-only: no operation changes a field of   *)
(* an existing Location, and a Location leaves the store only through       *)
(* cleanup, when it is older than the cutoff, or through deleteBus of its   *)
(* own bus; updateBusLocation, refresh, route and operator operations       *)
(* neither delete nor alter an existing Location.                           *)

Removers == {"cleanupOldLocations", "deleteBus"}

C26_LocationsAppendOnly ==
    [][ /\ \A l \in locations : \A m \in locations' : m.id = l.id => m = l
        /\ \A l \in locations \ locations' :
              \/ /\ resp'.op = "cleanupOldLocations"
                 /\ l.timestamp < now - resp'.req.daysToKeep * Day
              \/ /\ resp'.op = "deleteBus"
                 /\ l.busId = resp'.busId
        /\ resp'.op \notin Removers => locations \subseteq locations' ]_vars

\* deleteBus has removed the pings of its bus and left a ping of another bus
C26_Witness ==
    /\ resp.op = "deleteBus"
    /\ resp.status = Ok
    /\ \E l \in locations : l.busId # resp.busId
    /\ Cardinality(locations) < nextLocId - 1

----------------------------------------------------------------------------
(* C27: the busId generation of a new Bus ends after at most 100 collision  *)
(* checks and leaves the bus with a busId of the prefix and six digits that *)
(* no Bus in the store holds, also when the loop is exhausted and the       *)
(* timestamp-derived fallback is used.                                      *)

\* the hook has set this.busId
Named(c) == calls[c].op = "save" /\ calls[c].pc = "named"

C27_GeneratedBusIdUnused ==
    \A c \in CallIds :
       /\ calls[c].op = "save" => calls[c].attempts <= MaxAttempts
       /\ Named(c) => /\ WellFormed(calls[c].newBusId)
                      /\ ~BusIdExists(calls[c].newBusId)

----------------------------------------------------------------------------
(* C28: in every reachable state the busId of every Location names a Bus    *)
(* that exists in the store: an update for a busId that matches no Bus      *)
(* creates no Location, and once deleteBus has completed, also when an      *)
(* update of the same bus was in flight with it, no Location of that bus    *)
(* remains.                                                                 *)

C28_LocationBusExists ==
    \A l \in locations : l.busId \in DOMAIN buses

\* call c was a refresh and returned a new pair
ReturnedPair(c) ==
    /\ calls[c].op = "refresh"
    /\ calls[c].pc = "done"
    /\ calls[c].status = Ok

AllFinished == \A c \in CallIds : calls[c].pc = "done"

\* C29: a refresh token yields at most one successful refresh: of the calls
\* that present the stored token, in every interleaving, at most one returns a
\* new pair, and once all calls have finished the presented token is not in
\* the user's stored list
C29_OneRefreshPerToken ==
    /\ Cardinality({c \in CallIds : ReturnedPair(c)}) <= 1
    /\ AllFinished => ~Stored(users["u1"].refreshTokens, PresentedToken)

----------------------------------------------------------------------------
(* C30: admin accounts are created only by admins: a User with role admin   *)
(* that appears in a step is created by an endpoint behind protect and      *)
(* authorize("admin") whose caller passed the guard; the public register    *)
(* never creates a user with role admin, whatever role its body carries.    *)

C30_AdminsCreatedByAdmins ==
    [][ \A u \in DOMAIN users' :
          (u \notin DOMAIN users /\ users'[u].role = "admin")
             => /\ resp'.op \in {"createAdmin", "createUser"}
                /\ GuardCheck(resp'.req.token, {"admin"}) = Ok ]_vars

====
